---- MODULE Spec2Model ----
(***************************************************************************)
(* Real-time fan-out layer of stacktrials_apis.                            *)
(*                                                                         *)
(* ConnectionManager (app/common/ws_manager.py) keeps, per channel key,    *)
(* the set of live WebSockets; the WebSocket routers register sockets in   *)
(* it, publish through it and unregister on exit.  Everything runs on one  *)
(* asyncio event loop: a step of the model is the code a coroutine runs    *)
(* between two suspension points (await ws.accept(), await ws.send_json(), *)
(* await websocket.receive_json()).  `async with self._lock` never         *)
(* suspends, because no holder of the lock awaits inside it.               *)
(***************************************************************************)
EXTENDS Integers, FiniteSets, Sequences, TLC

\* ------------------------------------------------------------------ bounds
NumSockets == 2
NumDocs == 2
NumPubs == 1
NumChats == 2
NumUsers == 2
MaxPending == 1
MaxInbox == 1
MaxFaults == 1
NumWorkers == 2
MaxMsgs == 3
MaxTime == 3
PageLimit == 2
NumEmojis == 2
MaxCreates == 2

Sockets == 1..NumSockets
Users == 1..NumUsers
DocIds == {<<"doc", i>> : i \in 1..NumDocs}
Chats == {<<"chat", i>> : i \in 1..NumChats}
\* Outside callers of broadcast_local / publish are numbered after the sockets.
Pubs == (NumSockets + 1)..(NumSockets + NumPubs)
\* Whoever runs a broadcast: an outside caller, or the handler of a socket.
Publishers == Pubs \cup Sockets
\* Requests served at the same time, each with a database session of its own.
Workers == 1..NumWorkers
\* Values of created_at / last_message_at; 0 is the value of a fresh chat.
Times == 1..MaxTime
Emojis == 1..NumEmojis
\* Message.content before and after an edit.
Contents == {"original", "edited"}

VARIABLES
    active_connections, \* ConnectionManager.active_connections: key -> set of sockets
    transport,          \* per socket: "open", "gone" (client went away), "closed" (server closed)
    accepting,          \* connect() calls suspended in `await ws.accept()`
    bpc,                \* per publisher: position inside broadcast_local
    bkey,               \* per publisher: doc_id argument of the running broadcast
    conns,              \* per publisher: the local list `conns`
    sent,               \* per publisher: sockets whose send_json was attempted
    failed,             \* per publisher: sockets whose send_json raised
    atStart,            \* history: sockets registered under bkey when the call began
    subscribed,         \* history: <<key, socket>> pairs connected and not disconnected
    last,               \* history: the manager call an outside caller completed last
    kind,               \* per socket: the endpoint that serves it
    pc,                 \* per socket: position of its handler
    user,               \* per socket: current_user
    bound,              \* per socket: chat_id / doc_id path parameter
    hist_conns,         \* per socket: keys of the history handler's dict `conns`
    todo,               \* per socket: unsubscribes of a running cleanup still outstanding
    cleanups,           \* per socket: how often cleanup_all_connections ran
    results,            \* per socket: <<key, outcome>> of the cleanup's finished unsubscribes
    close_code,         \* per socket: close code the handler's websocket.close sent
    pubq,               \* per socket: publishes the room handler still has to make
    listener,           \* per socket: state of the annotation redis_listener task
    inbox,              \* per socket: broker messages waiting for its listener
    disc_seen,          \* running handlers whose receive raised WebSocketDisconnect
    messages,           \* table message: id -> row (ids are 1..Len)
    last_message_at,    \* per chat: the committed chat.last_message_at
    now,                \* the wall clock read by created_at's default factory
    req,                \* per worker: the request it serves and how far it got
    reactions,          \* table message_reaction: set of rows
    reacted,            \* history: the reaction call served last, and the table before it
    last_read,          \* per account and chat: chat_member.last_read_message_id (0: unset)
    walk,               \* a client paging through one chat's messages
    stats,              \* what the last unread aggregation returned
    members,            \* table chat_member: set of rows
    chat_name,          \* per chat: the metadata chat.update rewrites
    current_uses,       \* chat_invite.current_uses of the one invite
    admitted,           \* history: accounts that became members through the invite
    resp,               \* history: the request served last, its outcome and its publishes
    initial,            \* per socket: the page its chat.initial carried
    pushed,             \* per socket: messages delivered to it as chat.message.create
    announced,          \* history: message events published, with their channel
    delivered,          \* history, per socket: annotation payloads sent to it without error
    published           \* history, per document: annotation events handed to the broker

bcastVars == <<bpc, bkey, conns, sent, failed, atStart>>
gwVars == <<kind, pc, user, bound, hist_conns, todo, cleanups, results,
            close_code, pubq, listener, inbox, disc_seen>>
memberVars == <<members, chat_name, current_uses, admitted, resp>>
feedVars == <<initial, pushed, announced>>
annotVars == <<delivered, published>>
dbVars == <<messages, last_message_at, now, req, reactions, reacted,
            last_read, walk, stats, memberVars, feedVars, annotVars>>
vars == <<active_connections, transport, accepting, bcastVars, subscribed,
          last, gwVars, dbVars>>

\* `pre` tells what the registry held for the call's key just before the call.
NoCall == [op |-> "none", key |-> <<>>, ws |-> 0, pre |-> "none", exc |-> "none"]

\* ------------------------------------------------------- python containers
\* dict.get(key, []) : the stored set, nothing is inserted.
Get(ac, key) == IF key \in DOMAIN ac THEN ac[key] ELSE {}

\* defaultdict(set).__getitem__ : a missing key is inserted with an empty set.
GetItem(ac, key) == IF key \in DOMAIN ac THEN ac ELSE ac @@ (key :> {})

\* del d[key]
DelItem(ac, key) == [x \in DOMAIN ac \ {key} |-> ac[x]]

\* What the registry holds for (key, ws): the socket is a "member" of the
\* key's set, the key has an "entry" without it, or there is "nokey".
Pre(ac, key, ws) ==
    IF key \notin DOMAIN ac THEN "nokey"
    ELSE IF ws \in ac[key] THEN "member" ELSE "entry"

\* ------------------------------------------------------- ConnectionManager
\* connect(), after ws.accept() returned: active_connections[doc_id].add(ws)
connect(ac, doc_id, ws) ==
    LET ac1 == GetItem(ac, doc_id)
    IN  [ac |-> [ac1 EXCEPT ![doc_id] = @ \cup {ws}], exc |-> "none"]

\* Variants of disconnect() with one slip each.
\* The socket is dropped from every key, not only from doc_id.
disconnect_everywhere(ac, doc_id, ws) ==
    LET ac1 == [x \in DOMAIN ac |-> ac[x] \ {ws}]
    IN  [ac |-> [x \in {y \in DOMAIN ac1 : ac1[y] # {}} |-> ac1[x]], exc |-> "none"]

\* set.remove instead of set.discard: an absent socket raises KeyError.
disconnect_remove(ac, doc_id, ws) ==
    LET ac1 == GetItem(ac, doc_id)
        ac2 == [ac1 EXCEPT ![doc_id] = @ \ {ws}]
    IN  IF ws \notin ac1[doc_id]
        THEN [ac |-> ac1, exc |-> "KeyError"]
        ELSE [ac |-> IF ac2[doc_id] = {} THEN DelItem(ac2, doc_id) ELSE ac2,
              exc |-> "none"]

\* The emptied entry is not pruned.
disconnect_noprune(ac, doc_id, ws) ==
    LET ac1 == GetItem(ac, doc_id)
    IN  [ac |-> [ac1 EXCEPT ![doc_id] = @ \ {ws}], exc |-> "none"]

\* The entry is deleted without looking whether it became empty.
disconnect_del_always(ac, doc_id, ws) ==
    [ac |-> DelItem(GetItem(ac, doc_id), doc_id), exc |-> "none"]

\* disconnect(): discard, then prune the entry when it became empty.
disconnect(ac, doc_id, ws) ==
    LET ac1 == GetItem(ac, doc_id)
        ac2 == [ac1 EXCEPT ![doc_id] = @ \ {ws}]
    IN  [ac |-> IF ac2[doc_id] = {} THEN DelItem(ac2, doc_id) ELSE ac2,
         exc |-> "none"]

\* broadcast_local(): conns = list(self.active_connections.get(doc_id, []))
snapshot(ac, doc_id) == Get(ac, doc_id)

\* Variant: the loop walks the live set instead of the copy.
targets_live(p) == Get(active_connections, bkey[p]) \ sent[p]

\* broadcast_local(): `for ws in conns`, the sockets still to be sent to.
targets(p) == conns[p] \ sent[p]

\* ws.send_json(message) raises when the client is gone.
send_json_ok(ws) == transport[ws] = "open"

\* ------------------------------------------------------------ channel keys
\* chat_history_ws_channel(current_user): the user's personal-sync channel.
chat_history_ws_channel(u) == <<"sync", u>>

\* notification_ws_channel(current_user): the user's notification channel.
notification_ws_channel(u) == <<"notif", u>>

SyncKeys == {chat_history_ws_channel(u) : u \in Users}
NotifKeys == {notification_ws_channel(u) : u \in Users}

\* manager.subscribe_local(key, websocket): registers the (already accepted)
\* socket under key; the handle it returns stands for this registration.
subscribe_local(ac, key, ws) == connect(ac, key, ws)

\* manager.unsubscribe_local(key, handle): removes the registration.
unsubscribe_local(ac, key, ws) == disconnect(ac, key, ws)

\* ------------------------------------------------------------------- Init
\* No request is being served by worker w.
NoReq == [op |-> "none"]

\* No page has been requested yet.
NoWalk == [chat_id |-> <<>>, cursor |-> 0, pages |-> <<>>, has_next |-> TRUE,
           error |-> "none"]

\* A row of table `chat_member`.
Member(account_id, chat_id, role, is_creator) ==
    [account_id |-> account_id, chat_id |-> chat_id, role |-> role,
     status |-> "active", is_creator |-> is_creator]

\* Every account is a member of every chat; account 1 created the chats.
\* Nothing was requested and the invite is unused.
MemberInit ==
    /\ members = {Member(u, k, IF u = 1 THEN "admin" ELSE "member", u = 1) :
                     u \in Users, k \in Chats}
    /\ chat_name = [k \in Chats |-> "original"]
    /\ current_uses = 0
    /\ admitted = {}
    /\ resp = NoReq
    /\ initial = [s \in Sockets |-> NoReq]
    /\ pushed = [s \in Sockets |-> {}]
    /\ announced = {}
    /\ delivered = [s \in Sockets |-> 0]
    /\ published = [d \in DocIds |-> 0]

\* An empty database.
DbInit ==
    /\ messages = <<>>
    /\ last_message_at = [k \in Chats |-> 0]
    /\ now = 1
    /\ req = [w \in Workers |-> NoReq]
    /\ reactions = {}
    /\ reacted = NoReq
    /\ last_read = [u \in Users |-> [k \in Chats |-> 0]]
    /\ walk = NoWalk
    /\ stats = <<>>
    /\ MemberInit

\* No socket has been opened.
GatewayInit ==
    /\ active_connections = <<>>
    /\ transport = [s \in Sockets |-> "open"]
    /\ accepting = {}
    /\ bpc = [p \in Publishers |-> "idle"]
    /\ bkey = [p \in Publishers |-> <<>>]
    /\ conns = [p \in Publishers |-> {}]
    /\ sent = [p \in Publishers |-> {}]
    /\ failed = [p \in Publishers |-> {}]
    /\ atStart = [p \in Publishers |-> {}]
    /\ subscribed = {}
    /\ last = NoCall
    /\ kind = [s \in Sockets |-> "none"]
    /\ pc = [s \in Sockets |-> "idle"]
    /\ user = [s \in Sockets |-> 0]
    /\ bound = [s \in Sockets |-> <<>>]
    /\ hist_conns = [s \in Sockets |-> {}]
    /\ todo = [s \in Sockets |-> {}]
    /\ cleanups = [s \in Sockets |-> 0]
    /\ results = [s \in Sockets |-> {}]
    /\ close_code = [s \in Sockets |-> "none"]
    /\ pubq = [s \in Sockets |-> <<>>]
    /\ listener = [s \in Sockets |-> "none"]
    /\ inbox = [s \in Sockets |-> 0]
    /\ disc_seen = {}

Init == GatewayInit /\ DbInit

\* ---------------------------------------------------------- broadcast_local
\* broadcast_local(doc_id, message) is called: the snapshot is taken and the
\* first send_json is awaited; with no subscriber the call returns at once.
broadcast_local(p, doc_id) ==
    /\ bpc[p] = "idle"
    /\ LET c == snapshot(active_connections, doc_id)
       IN  /\ conns' = [conns EXCEPT ![p] = c]
           /\ atStart' = [atStart EXCEPT ![p] = Get(active_connections, doc_id)]
           /\ bpc' = [bpc EXCEPT ![p] = IF c = {} THEN "idle" ELSE "sending"]
           /\ bkey' = [bkey EXCEPT ![p] = IF c = {} THEN <<>> ELSE doc_id]
    /\ sent' = [sent EXCEPT ![p] = {}]
    /\ failed' = [failed EXCEPT ![p] = {}]

\* The loop of broadcast_local after the send to ws (ok: it did not raise;
\* exc: what the except clause raised): it waits in the next send, or the
\* call returns (and its locals are gone), or it raises.
after_send(p, ws, ok, exc) ==
    IF exc = "none" /\ targets(p) # {ws}
    THEN /\ bpc' = [bpc EXCEPT ![p] = "sending"]
         /\ sent' = [sent EXCEPT ![p] = @ \cup {ws}]
         /\ failed' = [failed EXCEPT ![p] = IF ok THEN @ ELSE @ \cup {ws}]
         /\ UNCHANGED <<bkey, conns, atStart>>
    ELSE /\ bpc' = [bpc EXCEPT ![p] = IF exc = "none" THEN "idle" ELSE "raised"]
         /\ sent' = [sent EXCEPT ![p] = {}]
         /\ failed' = [failed EXCEPT ![p] = {}]
         /\ bkey' = [bkey EXCEPT ![p] = <<>>]
         /\ conns' = [conns EXCEPT ![p] = {}]
         /\ atStart' = [atStart EXCEPT ![p] = {}]

\* Variant: no except clause, the first failed send ends the broadcast.
BroadcastSend_abort(p, ws) ==
    /\ bpc[p] = "sending"
    /\ ws \in targets(p)
    /\ after_send(p, ws, send_json_ok(ws),
                  IF send_json_ok(ws) THEN "none" ELSE "Exception")
    /\ UNCHANGED <<active_connections, subscribed, transport, accepting, last, dbVars,
                   gwVars>>

\* One iteration of the loop: send_json to ws returns or raises; on a raise
\* the except clause disconnects ws; then the loop goes on or the call returns.
BroadcastSend(p, ws) ==
    /\ bpc[p] = "sending"
    /\ ws \in targets(p)
    /\ IF send_json_ok(ws)
       THEN /\ UNCHANGED <<active_connections, subscribed>>
            /\ after_send(p, ws, TRUE, "none")
       ELSE LET r == disconnect(active_connections, bkey[p], ws)
            IN  /\ active_connections' = r.ac
                /\ subscribed' = subscribed \ {<<bkey[p], ws>>}
                /\ after_send(p, ws, FALSE, r.exc)
    /\ UNCHANGED <<transport, accepting, last, dbVars, gwVars>>

\* The client of socket s goes away.
TransportDrop(s) ==
    /\ transport[s] = "open"
    /\ transport' = [transport EXCEPT ![s] = "gone"]
    /\ UNCHANGED <<active_connections, accepting, bcastVars, subscribed, last, dbVars,
                   gwVars>>

\* ------------------------------------------------- callers of the manager
\* connect(doc_id, ws) is called and suspends in `await ws.accept()`.
ConnectCall(doc_id, ws) ==
    /\ <<doc_id, ws>> \notin accepting
    /\ Cardinality(accepting) < MaxPending
    /\ accepting' = accepting \cup {<<doc_id, ws>>}
    /\ last' = [op |-> "connect_call", key |-> doc_id, ws |-> ws,
                pre |-> Pre(active_connections, doc_id, ws), exc |-> "none"]
    /\ UNCHANGED <<active_connections, transport, bcastVars, subscribed, gwVars, dbVars>>

\* ws.accept() returned: the socket is added under the lock.
ConnectAccepted(doc_id, ws) ==
    /\ <<doc_id, ws>> \in accepting
    /\ transport[ws] = "open"
    /\ LET r == connect(active_connections, doc_id, ws)
       IN  /\ active_connections' = r.ac
           /\ last' = [op |-> "connect", key |-> doc_id, ws |-> ws,
                       pre |-> Pre(active_connections, doc_id, ws), exc |-> r.exc]
    /\ accepting' = accepting \ {<<doc_id, ws>>}
    /\ subscribed' = subscribed \cup {<<doc_id, ws>>}
    /\ UNCHANGED <<transport, bcastVars, gwVars, dbVars>>

\* ws.accept() raised (the client is gone): connect() raises, nothing is added.
ConnectAcceptRaises(doc_id, ws) ==
    /\ <<doc_id, ws>> \in accepting
    /\ transport[ws] # "open"
    /\ accepting' = accepting \ {<<doc_id, ws>>}
    /\ last' = [op |-> "connect", key |-> doc_id, ws |-> ws,
                pre |-> Pre(active_connections, doc_id, ws), exc |-> "RuntimeError"]
    /\ UNCHANGED <<active_connections, transport, bcastVars, subscribed, gwVars, dbVars>>

\* disconnect(doc_id, ws): runs to completion without suspending.
DisconnectCall(doc_id, ws) ==
    /\ LET r == disconnect(active_connections, doc_id, ws)
       IN  /\ active_connections' = r.ac
           /\ last' = [op |-> "disconnect", key |-> doc_id, ws |-> ws,
                       pre |-> Pre(active_connections, doc_id, ws), exc |-> r.exc]
    /\ subscribed' = subscribed \ {<<doc_id, ws>>}
    /\ UNCHANGED <<transport, accepting, bcastVars, gwVars, dbVars>>

\* broadcast_local(doc_id, message) called by an outside caller.
BroadcastCall(p, doc_id) ==
    /\ broadcast_local(p, doc_id)
    /\ UNCHANGED <<active_connections, transport, accepting, subscribed, last, dbVars,
                   gwVars>>

Next ==
    \/ \E s \in Sockets : TransportDrop(s)
    \/ \E k \in DocIds, s \in Sockets : ConnectCall(k, s)
    \/ \E k \in DocIds, s \in Sockets : ConnectAccepted(k, s)
    \/ \E k \in DocIds, s \in Sockets : ConnectAcceptRaises(k, s)
    \/ \E k \in DocIds, s \in Sockets : DisconnectCall(k, s)
    \/ \E p \in Pubs, k \in DocIds : BroadcastCall(p, k)
    \/ \E p \in Pubs, s \in Sockets : BroadcastSend(p, s)

\* The manager under arbitrary callers.
Spec == Init /\ [][Next]_vars

\* ======================================================= WebSocket handlers
\* Each socket is served by one handler.  pc: "idle" (not connected yet),
\* "accept" (inside manager.connect), "recv" (waiting for a frame), "pub"
\* (publishing), "cleanup_d" / "cleanup_e" (gathering the unsubscribes after a
\* disconnect / an error), "done" (returned), "raised" (left by an uncaught
\* exception), "aborted" (raised before anything was registered).

\* The server side ends the connection: websocket.close(), or the framework
\* closing the socket of a handler that raised.
close(tr, c) == IF tr[c] = "open" THEN [tr EXCEPT ![c] = "closed"] ELSE tr

\* `await websocket.close()` in a handler: no code is passed, so the close
\* frame carries the default, 1000 (normal closure); on a transport that is
\* not open the call raises and the handler swallows that.
ws_close(c) ==
    /\ transport' = close(transport, c)
    /\ close_code' = IF transport[c] = "open"
                      THEN [close_code EXCEPT ![c] = "1000"]
                      ELSE close_code

\* The handler ends without closing the socket itself.
no_close == UNCHANGED <<transport, close_code>>

\* The handler of c is left with position p.  Its arguments (user, bound) and
\* the `conns` it tracked stay readable; what it still had to do is dropped.
exit(c, p) ==
    /\ pc' = [pc EXCEPT ![c] = p]
    /\ todo' = [todo EXCEPT ![c] = {}]
    /\ pubq' = [pubq EXCEPT ![c] = <<>>]
    /\ UNCHANGED <<user, bound, hist_conns>>
    /\ disc_seen' = disc_seen \ {c}

\* ---- chat/ws_router.py: connect_chat_histories ("/")
\* accept, list_chat, send chat.list, subscribe to the personal-sync channel.
HistoryHydrate(c, u) ==
    /\ pc[c] = "idle"
    /\ transport[c] = "open"
    /\ kind' = [kind EXCEPT ![c] = "history"]
    /\ user' = [user EXCEPT ![c] = u]
    /\ active_connections' =
          subscribe_local(active_connections, chat_history_ws_channel(u), c).ac
    /\ subscribed' = subscribed \cup {<<chat_history_ws_channel(u), c>>}
    /\ hist_conns' = [hist_conns EXCEPT ![c] = {chat_history_ws_channel(u)}]
    /\ pc' = [pc EXCEPT ![c] = "recv"]
    /\ UNCHANGED <<transport, accepting, bcastVars, last, dbVars, bound, todo, cleanups, results,
                   pubq, listener, inbox, disc_seen, close_code>>

\* The initial query or the first send raises: the handler of endpoint k ends
\* before it subscribed to anything.
HydrateFails(c, k) ==
    /\ pc[c] = "idle"
    /\ kind' = [kind EXCEPT ![c] = k]
    /\ exit(c, "aborted")
    /\ transport' = close(transport, c)
    /\ UNCHANGED <<active_connections, accepting, bcastVars, subscribed, last, dbVars,
                   cleanups, results, listener, inbox, close_code>>

\* receive_json raises on an unparseable frame: `continue`.
HistoryMalformed(c) ==
    /\ kind[c] = "history" /\ pc[c] = "recv" /\ transport[c] = "open"
    /\ UNCHANGED vars

\* A structured frame whose event is neither chat.subscribe nor chat.unsubscribe.
HistoryOtherEvent(c) ==
    /\ kind[c] = "history" /\ pc[c] = "recv" /\ transport[c] = "open"
    /\ UNCHANGED vars

\* chat.subscribe with a string: subscribe and remember the handle.
HistorySubscribe(c, data) ==
    /\ kind[c] = "history" /\ pc[c] = "recv" /\ transport[c] = "open"
    /\ active_connections' = subscribe_local(active_connections, data, c).ac
    /\ subscribed' = subscribed \cup {<<data, c>>}
    /\ hist_conns' = [hist_conns EXCEPT ![c] = @ \cup {data}]
    /\ UNCHANGED <<transport, accepting, bcastVars, last, dbVars, kind, close_code, pc, user, bound,
                   todo, cleanups, results, pubq, listener, inbox, disc_seen>>

\* chat.unsubscribe with a string the handler tracks: unsubscribe and forget.
HistoryUnsubscribe(c, data) ==
    /\ kind[c] = "history" /\ pc[c] = "recv" /\ transport[c] = "open"
    /\ data \in hist_conns[c]
    /\ active_connections' = unsubscribe_local(active_connections, data, c).ac
    /\ subscribed' = subscribed \ {<<data, c>>}
    /\ hist_conns' = [hist_conns EXCEPT ![c] = @ \ {data}]
    /\ UNCHANGED <<transport, accepting, bcastVars, last, dbVars, kind, close_code, pc, user, bound,
                   todo, cleanups, results, pubq, listener, inbox, disc_seen>>

\* Variant of the cleanup that forgets the room subscriptions.
cleanup_tasks_own(c) == hist_conns[c] \cap {chat_history_ws_channel(user[c])}

\* cleanup_all_connections(): one unsubscribe task per entry of `conns`.
cleanup_tasks(c) == hist_conns[c]

\* cleanup_all_connections() is entered: it returns at once when `conns` is
\* empty, else the unsubscribes are gathered.  after = "d": the handler
\* returns when they are through, "e": it also closes the socket.
cleanup_all_connections(c, after) ==
    /\ cleanups' = [cleanups EXCEPT ![c] = @ + 1]
    /\ results' = [results EXCEPT ![c] = {}]
    /\ IF cleanup_tasks(c) = {}
       THEN /\ exit(c, "done")
            /\ IF after = "e" THEN ws_close(c) ELSE no_close
       ELSE /\ pc' = [pc EXCEPT ![c] = IF after = "e" THEN "cleanup_e" ELSE "cleanup_d"]
            /\ todo' = [todo EXCEPT ![c] = cleanup_tasks(c)]
            /\ no_close
            /\ UNCHANGED <<user, bound, hist_conns, pubq, disc_seen>>

\* receive_json raises WebSocketDisconnect: re-raised, the outer handler cleans up.
HistoryDisconnect(c) ==
    /\ kind[c] = "history" /\ pc[c] = "recv" /\ transport[c] # "open"
    /\ cleanup_all_connections(c, "d")
    /\ UNCHANGED <<active_connections, accepting, bcastVars, subscribed, last, dbVars,
                   kind, listener, inbox>>

\* Anything else raised in the loop (a frame that is no object, data that is no
\* string, chat.unsubscribe of a key the handler does not track): clean up, close.
HistoryError(c) ==
    /\ kind[c] = "history" /\ pc[c] = "recv" /\ transport[c] = "open"
    /\ cleanup_all_connections(c, "e")
    /\ UNCHANGED <<active_connections, accepting, bcastVars, subscribed, last, dbVars,
                   kind, listener, inbox>>

\* Variant of gather without return_exceptions: a task's exception leaves it.
escapes_raise(outcome) == outcome # "ok"

\* asyncio.gather(*cleanup_tasks, return_exceptions=True): what a task raised
\* (TimeoutError of wait_for, or the unsubscribe's own exception) is collected
\* like a result, it does not leave the gather.
escapes(outcome) == FALSE

\* The wait_for task of `key` has ended with `outcome` ("ok", "timeout",
\* "exc"): the gather goes on waiting for the others, or, when this was the
\* last one, cleanup_all_connections returns and the handler goes on.
task_done(c, key, outcome) ==
    /\ results' = [results EXCEPT ![c] = @ \cup {<<key, outcome>>}]
    /\ IF escapes(outcome)
       THEN /\ exit(c, "raised")
            /\ transport' = close(transport, c)
            /\ UNCHANGED close_code
       ELSE IF todo[c] = {key}
       THEN /\ exit(c, "done")
            /\ IF pc[c] = "cleanup_e" THEN ws_close(c) ELSE no_close
       ELSE /\ todo' = [todo EXCEPT ![c] = @ \ {key}]
            /\ no_close
            /\ UNCHANGED <<pc, user, bound, hist_conns, pubq, disc_seen>>

\* One gathered unsubscribe runs to its end.
HistoryCleanupTask(c, key) ==
    /\ pc[c] \in {"cleanup_d", "cleanup_e"}
    /\ key \in todo[c]
    /\ active_connections' = unsubscribe_local(active_connections, key, c).ac
    /\ subscribed' = subscribed \ {<<key, c>>}
    /\ task_done(c, key, "ok")
    /\ UNCHANGED <<accepting, bcastVars, last, dbVars, kind, cleanups, listener, inbox>>

\* The unsubscribes that hung or raised so far, over all cleanups.
faults == UNION {{<<c, r>> : r \in {x \in results[c] : x[2] # "ok"}} : c \in Sockets}

\* One gathered unsubscribe hangs before it touched the registry: after
\* timeout=2.0 wait_for cancels it and raises TimeoutError.
HistoryCleanupTimeout(c, key) ==
    /\ pc[c] \in {"cleanup_d", "cleanup_e"}
    /\ key \in todo[c]
    /\ Cardinality(faults) < MaxFaults
    /\ task_done(c, key, "timeout")
    /\ UNCHANGED <<active_connections, subscribed, accepting, bcastVars, last, dbVars,
                   kind, cleanups, listener, inbox>>

\* One gathered unsubscribe raises before it touched the registry.
HistoryCleanupRaises(c, key) ==
    /\ pc[c] \in {"cleanup_d", "cleanup_e"}
    /\ key \in todo[c]
    /\ Cardinality(faults) < MaxFaults
    /\ task_done(c, key, "exc")
    /\ UNCHANGED <<active_connections, subscribed, accepting, bcastVars, last, dbVars,
                   kind, cleanups, listener, inbox>>

\* ---- chat/ws_router.py: connect_to_chat ("/{chat_id}")
\* accept, get_initial_data, send chat.initial, subscribe to the room and to
\* the personal-sync channel.
RoomHydrate(c, u, chat_id) ==
    /\ pc[c] = "idle"
    /\ transport[c] = "open"
    /\ kind' = [kind EXCEPT ![c] = "room"]
    /\ user' = [user EXCEPT ![c] = u]
    /\ bound' = [bound EXCEPT ![c] = chat_id]
    /\ active_connections' =
          subscribe_local(subscribe_local(active_connections, chat_id, c).ac,
                          chat_history_ws_channel(u), c).ac
    /\ subscribed' = subscribed \cup {<<chat_id, c>>, <<chat_history_ws_channel(u), c>>}
    /\ pc' = [pc EXCEPT ![c] = "recv"]
    /\ UNCHANGED <<transport, accepting, bcastVars, last, dbVars, hist_conns, todo,
                   cleanups, results, pubq, listener, inbox, disc_seen, close_code>>

\* receive_json raises on an unparseable frame: `continue`.
RoomMalformed(c) ==
    /\ kind[c] = "room" /\ pc[c] = "recv" /\ transport[c] = "open"
    /\ UNCHANGED vars

\* A push built as a dict {"event": ..., "data": ...}; send_json writes it as
\* a JSON object.  `fields` are the keys of data that matter here.
envelope(event, fields) == [json |-> "object", event |-> event, data |-> fields]

\* A push built as a Python tuple holding one value; send_json writes it as a
\* JSON array.
tuple1(x) == [json |-> "array", items |-> <<x>>]

\* stat_resp = ( {"event": "chat.stat", "data": {**stats, "chat_id": chat_id}}, )
\* The trailing comma makes it a 1-tuple around the dict.
stat_resp == tuple1(envelope("chat.stat", {"unread_count", "has_reply", "chat_id"}))

\* The publishes one inbound frame leads to when nothing raises: the event's
\* own publish(es) (message create / update / delete and the reaction toggle
\* publish to the room, chat.update to the room and to the personal-sync
\* channel, a frame that matches no branch publishes nothing), then stat_resp
\* to the room and to the personal-sync channel.
publishes(ev, chat_id, sync_key) ==
    LET own == CASE ev = "message" ->
                       <<[key |-> chat_id, msg |-> envelope("chat.message", {})]>>
                 [] ev = "chat.update" ->
                       <<[key |-> chat_id, msg |-> envelope("chat.update", {})],
                         [key |-> sync_key, msg |-> envelope("chat.update", {})]>>
                 [] OTHER -> <<>>
    IN  own \o <<[key |-> chat_id, msg |-> stat_resp],
                 [key |-> sync_key, msg |-> stat_resp]>>

\* manager.publish(key, message): fan-out to the key's subscribers.
publish(p, key) == broadcast_local(p, key)

\* The unsubscribes of the room handler's except clauses.
room_cleanup(ac, c) == unsubscribe_local(ac, bound[c], c)

\* The `except Exception` clause of the room handler: unsubscribe the room
\* key, close, return.
room_except(c) ==
    /\ active_connections' = room_cleanup(active_connections, c).ac
    /\ subscribed' = subscribed \ {<<bound[c], c>>}
    /\ exit(c, "done")
    /\ ws_close(c)

\* A structured frame is handled without error: the first publish starts.
RoomEvent(c, ev) ==
    /\ kind[c] = "room" /\ pc[c] = "recv" /\ transport[c] = "open"
    /\ LET q == publishes(ev, bound[c], chat_history_ws_channel(user[c]))
       IN  /\ publish(c, Head(q).key)
           /\ pubq' = [pubq EXCEPT ![c] = Tail(q)]
    /\ pc' = [pc EXCEPT ![c] = "pub"]
    /\ UNCHANGED <<active_connections, transport, accepting, subscribed, last, dbVars,
                   kind, close_code, user, bound, hist_conns, todo, cleanups,
                   results, listener, inbox, disc_seen>>

\* The running publish returned: the next one starts.
RoomPublish(c) ==
    /\ kind[c] = "room" /\ pc[c] = "pub" /\ pubq[c] # <<>>
    /\ publish(c, Head(pubq[c]).key)
    /\ pubq' = [pubq EXCEPT ![c] = Tail(@)]
    /\ UNCHANGED <<active_connections, transport, accepting, subscribed, last, dbVars,
                   kind, close_code, pc, user, bound, hist_conns, todo, cleanups,
                   results, listener, inbox, disc_seen>>

\* The last publish returned: back to receive_json.
RoomPublished(c) ==
    /\ kind[c] = "room" /\ pc[c] = "pub" /\ pubq[c] = <<>>
    /\ bpc[c] = "idle"
    /\ pc' = [pc EXCEPT ![c] = "recv"]
    /\ UNCHANGED <<active_connections, transport, accepting, bcastVars,
                   subscribed, last, dbVars, kind, close_code, user, bound, hist_conns,
                   todo, cleanups, results, pubq, listener, inbox, disc_seen>>

\* receive_json raises WebSocketDisconnect: unsubscribe, return.
RoomDisconnect(c) ==
    /\ kind[c] = "room" /\ pc[c] = "recv" /\ transport[c] # "open"
    /\ active_connections' = room_cleanup(active_connections, c).ac
    /\ subscribed' = subscribed \ {<<bound[c], c>>}
    /\ exit(c, "done")
    /\ UNCHANGED <<transport, accepting, bcastVars, last, dbVars, kind, close_code, cleanups, results,
                   listener, inbox>>

\* Handling a frame raises (validation, the domain operation): unsubscribe, close.
RoomError(c) ==
    /\ kind[c] = "room" /\ pc[c] = "recv" /\ transport[c] = "open"
    /\ room_except(c)
    /\ UNCHANGED <<accepting, bcastVars, last, dbVars, kind, cleanups, results, listener, inbox>>

\* ---- notification/ws_router.py: connect_chat_histories ("/")
\* accept, list_notifications, send notification.list, subscribe.
NotifHydrate(c, u) ==
    /\ pc[c] = "idle"
    /\ transport[c] = "open"
    /\ kind' = [kind EXCEPT ![c] = "notif"]
    /\ user' = [user EXCEPT ![c] = u]
    /\ active_connections' =
          subscribe_local(active_connections, notification_ws_channel(u), c).ac
    /\ subscribed' = subscribed \cup {<<notification_ws_channel(u), c>>}
    /\ pc' = [pc EXCEPT ![c] = "recv"]
    /\ UNCHANGED <<transport, accepting, bcastVars, last, dbVars, bound, hist_conns,
                   todo, cleanups, results, pubq, listener, inbox, disc_seen, close_code>>

\* A frame arrives: unparseable (`continue`) or an object (nothing to do).
NotifFrame(c) ==
    /\ kind[c] = "notif" /\ pc[c] = "recv" /\ transport[c] = "open"
    /\ UNCHANGED vars

\* A frame that parses to something without .get raises out of the loop:
\* unsubscribe, close.
NotifError(c) ==
    /\ kind[c] = "notif" /\ pc[c] = "recv" /\ transport[c] = "open"
    /\ active_connections' =
          unsubscribe_local(active_connections, notification_ws_channel(user[c]), c).ac
    /\ subscribed' = subscribed \ {<<notification_ws_channel(user[c]), c>>}
    /\ exit(c, "done")
    /\ ws_close(c)
    /\ UNCHANGED <<accepting, bcastVars, last, dbVars, kind, cleanups, results, listener, inbox>>

\* receive_json raises WebSocketDisconnect (and, from then on, RuntimeError):
\* the inner `except Exception: continue` catches it and the loop goes on.
NotifDisconnect(c) ==
    /\ kind[c] = "notif" /\ pc[c] = "recv" /\ transport[c] # "open"
    /\ disc_seen' = disc_seen \cup {c}
    /\ UNCHANGED <<active_connections, transport, accepting, bcastVars,
                   subscribed, last, dbVars, kind, close_code, pc, user, bound, hist_conns, todo,
                   cleanups, results, pubq, listener, inbox>>

\* ---- student/ws_router.py: annotation_ws
\* manager.connect(doc_id, websocket) is called and waits in ws.accept().
AnnotConnect(c, u, doc_id) ==
    /\ pc[c] = "idle"
    /\ kind' = [kind EXCEPT ![c] = "annot"]
    /\ user' = [user EXCEPT ![c] = u]
    /\ bound' = [bound EXCEPT ![c] = doc_id]
    /\ accepting' = accepting \cup {<<doc_id, c>>}
    /\ pc' = [pc EXCEPT ![c] = "accept"]
    /\ UNCHANGED <<active_connections, transport, bcastVars, subscribed, last, dbVars,
                   hist_conns, todo, cleanups, results, pubq, listener, inbox, disc_seen, close_code>>

\* accept returned: the socket is registered, the broker channel subscribed,
\* the listener task created; the handler waits for a frame.
AnnotAccepted(c) ==
    /\ kind[c] = "annot" /\ pc[c] = "accept" /\ transport[c] = "open"
    /\ active_connections' = connect(active_connections, bound[c], c).ac
    /\ subscribed' = subscribed \cup {<<bound[c], c>>}
    /\ accepting' = accepting \ {<<bound[c], c>>}
    /\ listener' = [listener EXCEPT ![c] = "running"]
    /\ pc' = [pc EXCEPT ![c] = "recv"]
    /\ UNCHANGED <<transport, bcastVars, last, dbVars, kind, close_code, user, bound, hist_conns,
                   todo, cleanups, results, pubq, inbox, disc_seen>>

\* accept raised: the handler ends, nothing was registered.
AnnotAcceptRaises(c) ==
    /\ kind[c] = "annot" /\ pc[c] = "accept" /\ transport[c] # "open"
    /\ accepting' = accepting \ {<<bound[c], c>>}
    /\ exit(c, "aborted")
    /\ UNCHANGED <<active_connections, transport, bcastVars, subscribed, last, dbVars,
                   kind, close_code, cleanups, results, listener, inbox>>

\* redis_listener: a broker message is taken and broadcast to the local sockets.
AnnotListen(c) ==
    /\ listener[c] = "running"
    /\ inbox[c] > 0
    /\ inbox' = [inbox EXCEPT ![c] = @ - 1]
    /\ broadcast_local(c, bound[c])
    /\ UNCHANGED <<active_connections, transport, accepting, subscribed, last, dbVars,
                   kind, close_code, pc, user, bound, hist_conns, todo, cleanups, results, pubq,
                   listener, disc_seen>>

\* The listeners the broker delivers a message of this document to.
listeners(doc_id) == {s \in Sockets : listener[s] = "running" /\ bound[s] = doc_id}

\* annotation.create / .update / .delete handled: the payload is published to
\* the broker, which hands it to every listener of the document.
AnnotEvent(c) ==
    /\ kind[c] = "annot" /\ pc[c] = "recv" /\ transport[c] = "open"
    /\ \A s \in listeners(bound[c]) : inbox[s] < MaxInbox
    /\ inbox' = [s \in Sockets |->
                    IF s \in listeners(bound[c]) THEN inbox[s] + 1 ELSE inbox[s]]
    /\ UNCHANGED <<active_connections, transport, accepting, bcastVars,
                   subscribed, last, dbVars, kind, close_code, pc, user, bound, hist_conns, todo,
                   cleanups, results, pubq, listener, disc_seen>>

\* A frame with another event, or naming an annotation that does not exist.
AnnotOtherEvent(c) ==
    /\ kind[c] = "annot" /\ pc[c] = "recv" /\ transport[c] = "open"
    /\ UNCHANGED vars

\* `finally: listener_task.cancel()`: a broadcast of the listener stops at
\* the send it waits in.
cancel_listener(c) ==
    /\ listener' = [listener EXCEPT ![c] = "cancelled"]
    /\ inbox' = [inbox EXCEPT ![c] = 0]
    /\ bpc' = [bpc EXCEPT ![c] = "idle"]
    /\ bkey' = [bkey EXCEPT ![c] = <<>>]
    /\ conns' = [conns EXCEPT ![c] = {}]
    /\ sent' = [sent EXCEPT ![c] = {}]
    /\ failed' = [failed EXCEPT ![c] = {}]
    /\ atStart' = [atStart EXCEPT ![c] = {}]

\* receive_text raises WebSocketDisconnect: disconnect, cancel the listener.
AnnotDisconnect(c) ==
    /\ kind[c] = "annot" /\ pc[c] = "recv" /\ transport[c] # "open"
    /\ active_connections' = disconnect(active_connections, bound[c], c).ac
    /\ subscribed' = subscribed \ {<<bound[c], c>>}
    /\ cancel_listener(c)
    /\ exit(c, "done")
    /\ UNCHANGED <<transport, accepting, last, dbVars, kind, close_code, cleanups, results>>

\* json.loads raises on the frame, or handling the event raises: only the
\* finally clause runs, the exception leaves the handler.
AnnotError(c) ==
    /\ kind[c] = "annot" /\ pc[c] = "recv" /\ transport[c] = "open"
    /\ cancel_listener(c)
    /\ exit(c, "raised")
    /\ transport' = close(transport, c)
    /\ UNCHANGED <<active_connections, accepting, subscribed, last, dbVars, kind, close_code,
                   cleanups, results>>

\* ---- chat/ws_router.py: what the receive loops do with a frame that is no
\* well-formed event
\* "unparseable": receive_json raises on it; "nonobject": it parses to a
\* list, string or number; "noevent": an object without an "event" field.
MalformedFrames == {"unparseable", "nonobject", "noevent"}

\* connect_chat_histories: receive_json raising is caught (`continue`);
\* raw_data.get of a non-object raises AttributeError, which the handler's
\* `except Exception` takes; an object without event matches no branch.
HistoryFrame(c, f) ==
    CASE f = "unparseable" -> HistoryMalformed(c)
      [] f = "nonobject" -> HistoryError(c)
      [] f = "noevent" -> HistoryOtherEvent(c)

\* connect_to_chat: as above, but after an object that matches no branch the
\* loop still publishes stat_resp.
RoomFrame(c, f) ==
    CASE f = "unparseable" -> RoomMalformed(c)
      [] f = "nonobject" -> RoomError(c)
      [] f = "noevent" -> RoomEvent(c, "other")

\* ---- chat/ws_router.py: a domain operation behind a room event fails
DomainFailures == {"denied", "notfound", "unexpected"}

\* websocket_error_wrapper(op, ...): the failure is raised as a WebSocketException
\* carrying the close code derived from it.
wrapper_code(fail) == IF fail \in {"denied", "notfound"} THEN "1008" ELSE "1011"

\* connect_to_chat: whatever the wrapper raised is taken by `except Exception
\* as exc`; the clause unsubscribes and calls websocket.close() without
\* reading exc.
RoomDomainError(c, fail) == RoomError(c)

\* ---- publishers outside the WebSocket handlers
\* NotificationService.create_notification publishes notification.create to the
\* user's notification channel.
ExternalPublish(p, key) ==
    /\ publish(p, key)
    /\ UNCHANGED <<active_connections, transport, accepting, subscribed, last, dbVars,
                   gwVars>>

\* The chat endpoints (history and room) and their clients.  History clients
\* subscribe to rooms; the publishes to the rooms and to the personal-sync
\* channels are those of the room handlers.
ChatNext ==
    \/ \E s \in Sockets : TransportDrop(s)
    \/ \E p \in Publishers, s \in Sockets : BroadcastSend(p, s)
    \/ \E c \in Sockets, k \in {"history", "room"} : HydrateFails(c, k)
    \/ \E c \in Sockets, u \in Users : HistoryHydrate(c, u)
    \/ \E c \in Sockets : HistoryMalformed(c)
    \/ \E c \in Sockets : HistoryOtherEvent(c)
    \/ \E c \in Sockets, k \in Chats : HistorySubscribe(c, k)
    \/ \E c \in Sockets, k \in Chats \cup SyncKeys : HistoryUnsubscribe(c, k)
    \/ \E c \in Sockets : HistoryDisconnect(c)
    \/ \E c \in Sockets : HistoryError(c)
    \/ \E c \in Sockets, k \in Chats \cup SyncKeys : HistoryCleanupTask(c, k)
    \/ \E c \in Sockets, u \in Users, k \in Chats : RoomHydrate(c, u, k)
    \/ \E c \in Sockets : RoomMalformed(c)
    \/ \E c \in Sockets, ev \in {"message", "chat.update", "other"} : RoomEvent(c, ev)
    \/ \E c \in Sockets : RoomPublish(c)
    \/ \E c \in Sockets : RoomPublished(c)
    \/ \E c \in Sockets : RoomDisconnect(c)
    \/ \E c \in Sockets : RoomError(c)

ChatSpec == Init /\ [][ChatNext]_vars

\* The history endpoint alone, with unsubscribes of the cleanup that may hang
\* past their timeout or raise.
CleanupNext ==
    \/ \E s \in Sockets : TransportDrop(s)
    \/ \E c \in Sockets : HydrateFails(c, "history")
    \/ \E c \in Sockets, u \in Users : HistoryHydrate(c, u)
    \/ \E c \in Sockets : HistoryMalformed(c)
    \/ \E c \in Sockets : HistoryOtherEvent(c)
    \/ \E c \in Sockets, k \in Chats : HistorySubscribe(c, k)
    \/ \E c \in Sockets, k \in Chats \cup SyncKeys : HistoryUnsubscribe(c, k)
    \/ \E c \in Sockets : HistoryDisconnect(c)
    \/ \E c \in Sockets : HistoryError(c)
    \/ \E c \in Sockets, k \in Chats \cup SyncKeys : HistoryCleanupTask(c, k)
    \/ \E c \in Sockets, k \in Chats \cup SyncKeys : HistoryCleanupTimeout(c, k)
    \/ \E c \in Sockets, k \in Chats \cup SyncKeys : HistoryCleanupRaises(c, k)

\* Every gathered task ends: it finishes, raises, or its timeout expires.
CleanupSpec ==
    /\ Init /\ [][CleanupNext]_vars
    /\ \A c \in Sockets :
          WF_vars(\E k \in Chats \cup SyncKeys :
                     \/ HistoryCleanupTask(c, k)
                     \/ HistoryCleanupTimeout(c, k)
                     \/ HistoryCleanupRaises(c, k))

\* The notification endpoint, its clients, and create_notification publishing.
NotifNext ==
    \/ \E s \in Sockets : TransportDrop(s)
    \/ \E p \in Publishers, s \in Sockets : BroadcastSend(p, s)
    \/ \E p \in Pubs, k \in NotifKeys : ExternalPublish(p, k)
    \/ \E c \in Sockets : HydrateFails(c, "notif")
    \/ \E c \in Sockets, u \in Users : NotifHydrate(c, u)
    \/ \E c \in Sockets : NotifFrame(c)
    \/ \E c \in Sockets : NotifError(c)
    \/ \E c \in Sockets : NotifDisconnect(c)

NotifSpec == Init /\ [][NotifNext]_vars

\* The document-annotation endpoint and its clients.
AnnotNext ==
    \/ \E s \in Sockets : TransportDrop(s)
    \/ \E p \in Publishers, s \in Sockets : BroadcastSend(p, s)
    \/ \E c \in Sockets, u \in Users, d \in DocIds : AnnotConnect(c, u, d)
    \/ \E c \in Sockets : AnnotAccepted(c)
    \/ \E c \in Sockets : AnnotAcceptRaises(c)
    \/ \E c \in Sockets : AnnotListen(c)
    \/ \E c \in Sockets : AnnotEvent(c)
    \/ \E c \in Sockets : AnnotOtherEvent(c)
    \/ \E c \in Sockets : AnnotDisconnect(c)
    \/ \E c \in Sockets : AnnotError(c)

AnnotSpec == Init /\ [][AnnotNext]_vars

\* ===================================================== registry properties
Registered(key) == Get(active_connections, key)

Returns(p) == bpc[p] = "sending" /\ bpc'[p] = "idle"

\* C1: when a send of a publish fails, the failed socket leaves the channel's
\* set in that step (the snapshot of a later publish does not hold it), the
\* publish does not raise and goes on with the sockets of its snapshot that
\* are still to be sent to; it returns only when all of them were attempted.
C1_FanOutIsolation ==
    /\ [](\A p \in Publishers : bpc[p] # "raised")
    /\ [][\A p \in Publishers :
            /\ \A ws \in Sockets :
                  (BroadcastSend(p, ws) /\ ~send_json_ok(ws)) =>
                     /\ ws \notin snapshot(active_connections', bkey[p])
                     /\ targets(p) # {ws} =>
                           /\ bpc'[p] = "sending"
                           /\ targets(p)' = targets(p) \ {ws}
                     /\ targets(p) = {ws} => bpc'[p] = "idle"
            /\ Returns(p) => Cardinality(targets(p)) = 1]_vars

\* A publish to two subscribers is under way: the first send failed, that
\* socket is gone from the channel, and the other socket is the next target.
C1_Witness ==
    \E p \in Publishers :
        /\ bpc[p] = "sending"
        /\ Cardinality(conns[p]) >= 2
        /\ failed[p] # {}
        /\ failed[p] \cap Registered(bkey[p]) = {}
        /\ targets(p) # {}

\* C6: unsubscribing a socket from key A leaves every other key's set, and the
\* other sockets of A, as they were; a publish to another key B takes a
\* snapshot that still holds the socket.
C6_UnsubscribeKeepsOtherKeys ==
    [][\A a \in DocIds, ws \in Sockets :
          DisconnectCall(a, ws) =>
            /\ \A b \in DocIds \ {a} :
                  /\ Get(active_connections', b) = Get(active_connections, b)
                  /\ ws \in Registered(b) => ws \in snapshot(active_connections', b)
            /\ Get(active_connections', a) \ {ws} = Registered(a) \ {ws}]_vars

\* A socket registered under two keys was just unsubscribed from one of them
\* and is still registered under the other.
C6_Witness ==
    /\ last.op = "disconnect"
    /\ last.pre = "member"
    /\ \E b \in DocIds \ {last.key} : last.ws \in Registered(b)

\* C7: unsubscribing a socket that is not registered under the key (a second
\* unsubscribe, or a key without entry) raises nothing and leaves the registry
\* exactly as it was.
C7_UnsubscribeIdempotent ==
    [][\A k \in DocIds, ws \in Sockets :
          (DisconnectCall(k, ws) /\ ws \notin Registered(k)) =>
            /\ active_connections' = active_connections
            /\ last'.exc = "none"]_vars

\* A socket was just unsubscribed under a key that had no entry, while another
\* key has subscribers.
C7_Witness ==
    /\ last.op = "disconnect"
    /\ last.pre = "nokey"
    /\ last.exc = "none"
    /\ DOMAIN active_connections # {}

\* C8: no key of the registry maps to an empty set.
C8_NoEmptyEntry ==
    \A k \in DOMAIN active_connections : active_connections[k] # {}

\* The last subscriber of a key was just unsubscribed and the key is gone.
C8_Witness ==
    /\ last.op = "disconnect"
    /\ last.pre = "member"
    /\ last.key \notin DOMAIN active_connections

\* C9: every socket whose connect completed and that was not disconnected under
\* the key since is in the key's set.
C9_NoLostSubscriber ==
    \A pair \in subscribed : pair[2] \in Registered(pair[1])

\* The unsubscribe of a key's last socket just pruned the key's entry while
\* the subscribe of another socket to that key, called before, waits in accept.
C9_Witness ==
    /\ last.op = "disconnect"
    /\ last.pre = "member"
    /\ last.key \notin DOMAIN active_connections
    /\ \E s \in Sockets \ {last.ws} :
          /\ <<last.key, s>> \in accepting
          /\ transport[s] = "open"

\* C10: a publish sends to the sockets registered when it started, and to no
\* other: what it has sent to is always within that set, its list of targets
\* stays that set whatever is subscribed or unsubscribed meanwhile, the call
\* returns with the send that completes the set, and it never raises.
C10_SnapshotIteration ==
    /\ [](\A p \in Publishers :
            /\ sent[p] \subseteq atStart[p]
            /\ conns[p] = atStart[p]
            /\ bpc[p] # "raised")
    /\ [][\A p \in Publishers :
            /\ bpc[p] = "sending" /\ bpc'[p] = "sending" => atStart'[p] = atStart[p]
            /\ Returns(p) =>
                  \E ws \in atStart[p] : /\ BroadcastSend(p, ws)
                                          /\ sent[p] \cup {ws} = atStart[p]]_vars

\* Mid-publish, after one send: a target still to be sent to has been
\* unsubscribed meanwhile.
C10_Witness ==
    \E p \in Publishers :
        /\ bpc[p] = "sending"
        /\ sent[p] # {}
        /\ \E t \in targets(p) : t \notin Registered(bkey[p])

\* ====================================================== handler properties
\* The keys under which socket c is registered.
RegisteredKeys(c) == {k \in DOMAIN active_connections : c \in active_connections[k]}

\* C2: when a room connection has terminated (client disconnect or an error
\* while handling an event), the registry holds its socket neither under the
\* room key nor under the user's personal-sync key.
C2_RoomCleanupRemovesBoth ==
    \A c \in Sockets :
        (kind[c] = "room" /\ pc[c] = "done") =>
            /\ c \notin Registered(bound[c])
            /\ c \notin Registered(chat_history_ws_channel(user[c]))

\* The notification endpoint with every handler that can take a step
\* eventually taking one (the event loop runs each ready task).
NotifFairSpec ==
    NotifSpec /\ \A c \in Sockets : WF_vars(NotifDisconnect(c) \/ NotifError(c))

\* C3: once the transport of a notification connection is gone, its receive
\* loop ends (the receive that raises on the disconnect is the loop's last
\* iteration), and eventually the handler has returned and the socket is no
\* longer registered under the user's notification channel.
C3_NotifDisconnectEnds ==
    /\ [][\A c \in Sockets : NotifDisconnect(c) => pc'[c] # "recv"]_vars
    /\ \A c \in Sockets :
          (kind[c] = "notif" /\ pc[c] = "recv" /\ transport[c] # "open")
              ~> (pc[c] = "done"
                  /\ c \notin Registered(notification_ws_channel(user[c])))

C5_AnnotExitUnregisters ==
    \A c \in Sockets :
        (kind[c] = "annot" /\ pc[c] \in {"done", "raised"}) =>
            c \notin Registered(bound[c])

\* C11: the unsubscribes of a history cleanup are issued together; one that
\* hangs past its timeout or raises takes nothing from the others (they stay
\* outstanding and those that run to their end remove their subscription), no
\* exception leaves the cleanup, and the handler returns exactly when the last
\* outstanding unsubscribe has finished, raised or timed out, which happens.
C11_CleanupParallelBounded ==
    /\ [](\A c \in Sockets :
            /\ pc[c] # "raised"
            /\ pc[c] \in {"cleanup_d", "cleanup_e"} =>
                  /\ todo[c] # {}
                  /\ todo[c] \cup {r[1] : r \in results[c]} = hist_conns[c]
            /\ (kind[c] = "history" /\ pc[c] = "done") =>
                  /\ {r[1] : r \in results[c]} = hist_conns[c]
                  /\ Cardinality(results[c]) = Cardinality(hist_conns[c])
                  /\ \A r \in results[c] : r[2] = "ok" => c \notin Registered(r[1]))
    /\ [][\A c \in Sockets, k \in Chats \cup SyncKeys :
            (HistoryCleanupTimeout(c, k) \/ HistoryCleanupRaises(c, k)) =>
                /\ todo[c] # {k} => (todo'[c] = todo[c] \ {k} /\ pc'[c] = pc[c])
                /\ todo[c] = {k} => pc'[c] = "done"]_vars
    /\ \A c \in Sockets : (pc[c] \in {"cleanup_d", "cleanup_e"}) ~> (pc[c] = "done")

\* A history connection with three channels has returned from its cleanup:
\* one unsubscribe timed out and left the socket registered, the other two
\* completed.
C11_Witness ==
    \E c \in Sockets :
        /\ kind[c] = "history" /\ pc[c] = "done"
        /\ Cardinality(hist_conns[c]) = 3
        /\ \E k \in hist_conns[c] :
              /\ <<k, "timeout">> \in results[c]
              /\ c \in Registered(k)
              /\ \A k2 \in hist_conns[c] \ {k} :
                    <<k2, "ok">> \in results[c] /\ c \notin Registered(k2)

\* C12: a frame that is no well-formed event (unparseable, no object, or
\* without an event field) leaves the chat connection open and in its loop
\* and leaves the socket's subscriptions as they were.
C12_MalformedIgnored ==
    [][\A c \in Sockets, f \in MalformedFrames :
          (HistoryFrame(c, f) \/ RoomFrame(c, f)) =>
              /\ pc'[c] \in {"recv", "pub"}
              /\ transport'[c] = "open"
              /\ RegisteredKeys(c)' = RegisteredKeys(c)]_vars

\* C13: when the domain operation of an inbound room event fails, the socket
\* is closed with the code derived from the failure: policy violation (1008)
\* for permission denied and not found, server error (1011) for anything
\* unexpected; never the normal closure, never left open.
C13_CloseCodeFromFailure ==
    [][\A c \in Sockets, fail \in DomainFailures :
          RoomDomainError(c, fail) =>
              /\ transport'[c] = "closed"
              /\ close_code'[c] = wrapper_code(fail)]_vars

\* Room events whose domain operation succeeded and that publish themselves.
OwnPublishEvents == {"message", "chat.update"}

\* C14: after a successfully handled room event and its own publish the
\* handler publishes two more pushes, to the room channel and to the sender's
\* personal-sync channel, each an envelope object with event = "chat.stat"
\* whose data holds the unread count, the has-reply flag and the chat id.
C14_StatAfterEvent ==
    [][\A c \in Sockets, ev \in OwnPublishEvents :
          RoomEvent(c, ev) =>
              LET q == pubq'[c]
                  n == Len(q)
              IN  /\ n >= 2
                  /\ q[n - 1].key = bound[c]
                  /\ q[n].key = chat_history_ws_channel(user[c])
                  /\ \A i \in {n - 1, n} :
                        /\ q[i].msg.json = "object"
                        /\ q[i].msg.event = "chat.stat"
                        /\ {"unread_count", "has_reply", "chat_id"} \subseteq q[i].msg.data]_vars

\* ================================================== chat/service.py: messages
\* A row of table `message`.  The row's id is its index in `messages`.
Row(chat_id, sender_id, created_at, is_deleted, content, is_reply) ==
    [chat_id |-> chat_id, sender_id |-> sender_id, created_at |-> created_at,
     is_deleted |-> is_deleted, content |-> content,
     is_edited |-> content = "edited", is_reply |-> is_reply]

Range(p) == {p[i] : i \in DOMAIN p}

Min(a, b) == IF a < b THEN a ELSE b

\* select(Message).where(chat_id == chat_id, is_deleted == False)
listable(ms, chat_id) ==
    {i \in DOMAIN ms : ms[i].chat_id = chat_id /\ ~ms[i].is_deleted}

\* The where-clause after the anchor has been applied.  The anchor is looked
\* up by id alone; an id that matches no row leaves the query as it was.
cursor_query(ms, chat_id, last_message_id, cursor_type) ==
    LET base == listable(ms, chat_id)
    IN  IF last_message_id # 0 /\ last_message_id \in DOMAIN ms
        THEN CASE cursor_type = "before" ->
                      {i \in base : ms[i].created_at < ms[last_message_id].created_at}
               [] cursor_type = "after" ->
                      {i \in base : ms[i].created_at > ms[last_message_id].created_at}
               [] OTHER -> base
        ELSE base

\* order_by(desc(created_at)).limit(limit) over the rows S: every answer the
\* database may give.  Rows with equal created_at come in any order, and
\* which of them fall under the limit is the database's choice.
order_by_desc_limit(ms, S, limit) ==
    LET n == Min(Cardinality(S), limit)
    IN  {p \in [1..n -> S] :
            /\ \A i, j \in 1..n : i < j =>
                  /\ p[i] # p[j]
                  /\ ms[p[i]].created_at >= ms[p[j]].created_at
            /\ \A i \in S \ Range(p) : \A j \in 1..n :
                  ms[i].created_at <= ms[p[j]].created_at}

\* hasNext: select(Message).where(created_at < last_message.created_at),
\* over the whole table.
hasNext(ms, last_message) ==
    \E i \in DOMAIN ms : ms[i].created_at < ms[last_message].created_at

\* The page built from the query's rows; indexing the empty list raises.
page_of(ms, p) ==
    IF p = <<>>
    THEN [error |-> "IndexError", items |-> <<>>, next_cursor |-> 0,
          previous_cursor |-> 0, has_next |-> FALSE]
    ELSE [error |-> "none", items |-> p, next_cursor |-> p[Len(p)],
          previous_cursor |-> p[1], has_next |-> hasNext(ms, p[Len(p)])]

\* ChatService.list_messages for a member of the chat, without a search term:
\* the set of responses the call may produce.
list_messages(ms, chat_id, last_message_id, cursor_type, limit) ==
    {page_of(ms, p) :
        p \in order_by_desc_limit(
                 ms, cursor_query(ms, chat_id, last_message_id, cursor_type), limit)}

\* The route: ?before=<id> pages backwards, no parameter gives the newest page.
route_list_messages(ms, chat_id, before) ==
    list_messages(ms, chat_id, before, IF before # 0 THEN "before" ELSE "none",
                  PageLimit)

\* The client asks for the newest page of a chat.
ListFirstPage(chat_id) ==
    /\ walk = NoWalk
    /\ \E r \in route_list_messages(messages, chat_id, 0) :
          walk' = [chat_id |-> chat_id, cursor |-> r.next_cursor,
                   pages |-> IF r.error = "none" THEN <<r.items>> ELSE <<>>,
                   has_next |-> r.has_next, error |-> r.error]
    /\ UNCHANGED <<active_connections, transport, accepting, bcastVars,
                   subscribed, last, gwVars, messages, last_message_at, now,
                   req, reactions, reacted, last_read, stats, memberVars, feedVars, annotVars>>

\* The last page said has_next: the client asks for the page before its
\* oldest message.
ListNextPage ==
    /\ walk.chat_id # <<>> /\ walk.error = "none" /\ walk.has_next
    /\ \E r \in route_list_messages(messages, walk.chat_id, walk.cursor) :
          walk' = [walk EXCEPT
                     !.cursor = IF r.error = "none" THEN r.next_cursor ELSE @,
                     !.pages = IF r.error = "none" THEN Append(@, r.items) ELSE @,
                     !.has_next = r.has_next,
                     !.error = r.error]
    /\ UNCHANGED <<active_connections, transport, accepting, bcastVars,
                   subscribed, last, gwVars, messages, last_message_at, now,
                   req, reactions, reacted, last_read, stats, memberVars, feedVars, annotVars>>

\* The tables a paging client may find: up to MaxMsgs messages of any chat,
\* any age, deleted or not.
StoredRows ==
    {Row(k, 1, t, d, "original", FALSE) : k \in Chats, t \in Times, d \in BOOLEAN}

PagingInit ==
    /\ GatewayInit
    /\ \E n \in 0..MaxMsgs : messages \in [1..n -> StoredRows]
    /\ last_message_at = [k \in Chats |-> 0]
    /\ now = 1
    /\ req = [w \in Workers |-> NoReq]
    /\ reactions = {}
    /\ reacted = NoReq
    /\ last_read = [u \in Users |-> [k \in Chats |-> 0]]
    /\ walk = NoWalk
    /\ stats = <<>>
    /\ MemberInit

PagingNext ==
    \/ \E k \in Chats : ListFirstPage(k)
    \/ ListNextPage

PagingSpec == PagingInit /\ [][PagingNext]_vars

RECURSIVE Concat(_)
Concat(pages) == IF pages = <<>> THEN <<>> ELSE Head(pages) \o Concat(Tail(pages))

\* The client has nothing more to ask for.
WalkDone == walk.chat_id # <<>> /\ (walk.error # "none" \/ ~walk.has_next)

\* C15: paging backwards from the newest page, every page holds at most
\* PageLimit non-deleted messages of the chat, newest first; the pages together
\* never list a message twice, and once the walk is over they list every
\* non-deleted message of the chat, the oldest one last.
C15_PagesCoverChat ==
    walk.chat_id # <<>> =>
        LET all == Concat(walk.pages)
            L == listable(messages, walk.chat_id)
        IN  /\ \A i \in DOMAIN walk.pages :
                  /\ Len(walk.pages[i]) <= PageLimit
                  /\ Range(walk.pages[i]) \subseteq L
            /\ \A i, j \in DOMAIN all : i < j =>
                  /\ all[i] # all[j]
                  /\ messages[all[i]].created_at >= messages[all[j]].created_at
            /\ WalkDone =>
                  /\ Range(all) = L
                  /\ all # <<>> =>
                        \A i \in L : messages[all[Len(all)]].created_at
                                        <= messages[i].created_at

\* C16: the has_next flag of a page is true exactly when the chat holds a
\* non-deleted message strictly older than the page's oldest message,
\* whatever other chats hold.
C16_HasNextExact ==
    (walk.chat_id # <<>> /\ walk.error = "none") =>
        (walk.has_next <=>
            \E i \in listable(messages, walk.chat_id) :
                messages[i].created_at < messages[walk.cursor].created_at)

\* ------------------------------------------- chat/service.py: unread counts
\* `X if col(ChatMember.last_read_message_id).isnot(None) else True` is
\* evaluated by Python while the query is built, on a SQL expression object:
\* the truth test either raises TypeError or takes the expression for true.
\* In no case does it depend on the member's row.
IsNotTruth == {"TypeError", "truthy"}

\* The rows the aggregation counts for one chat when the where-clause is
\* `Message.created_at > (select created_at of the last-read message)`: a
\* member without last_read_message_id compares against NULL and matches no row.
unread_rows(ms, lr, chat_id) ==
    {i \in DOMAIN ms :
        /\ ms[i].chat_id = chat_id
        /\ lr # 0
        /\ ms[i].created_at > ms[lr].created_at}

\* ChatService.fetch_unread_stats: one entry per chat that has counted rows.
fetch_unread_stats(ms, lrs, chat_ids, truth) ==
    IF truth = "TypeError"
    THEN [error |-> "TypeError", map |-> <<>>]
    ELSE LET found == {k \in chat_ids : unread_rows(ms, lrs[k], k) # {}}
         IN  [error |-> "none",
              map |-> [k \in found |->
                         [unread_count |-> Cardinality(unread_rows(ms, lrs[k], k)),
                          has_reply |-> \E i \in unread_rows(ms, lrs[k], k) :
                                            ms[i].is_reply]]]

\* ChatService.list_chat for a viewer who is a member of every chat: the
\* statistics it reports per listed chat (unread_map.get with a default).
list_chat(ms, lrs, truth) ==
    LET r == fetch_unread_stats(ms, lrs, Chats, truth)
    IN  IF r.error # "none"
        THEN [error |-> r.error, items |-> <<>>]
        ELSE [error |-> "none",
              items |-> [k \in Chats |->
                           IF k \in DOMAIN r.map THEN r.map[k]
                           ELSE [unread_count |-> 0, has_reply |-> FALSE]]]

\* GET /chats by viewer u.
ListChat(u, truth) ==
    /\ stats' = list_chat(messages, last_read[u], truth)
    /\ UNCHANGED <<active_connections, transport, accepting, bcastVars,
                   subscribed, last, gwVars, messages, last_message_at, now,
                   req, reactions, reacted, last_read, walk, memberVars, feedVars, annotVars>>

\* ChatService.set_last_message_read by member u: the message must exist and
\* belong to the chat.
SetLastMessageRead(u, chat_id, message_id) ==
    /\ message_id \in DOMAIN messages
    /\ messages[message_id].chat_id = chat_id
    /\ last_read' = [last_read EXCEPT ![u][chat_id] = message_id]
    /\ UNCHANGED <<active_connections, transport, accepting, bcastVars,
                   subscribed, last, gwVars, messages, last_message_at, now,
                   req, reactions, reacted, walk, stats, memberVars, feedVars, annotVars>>

\* The tables the aggregation may find: messages of any chat and age, replies
\* or not.
UnreadRows ==
    {Row(k, 1, t, FALSE, "original", r) : k \in Chats, t \in Times, r \in BOOLEAN}

UnreadInit ==
    /\ GatewayInit
    /\ \E n \in 0..MaxMsgs : messages \in [1..n -> UnreadRows]
    /\ last_message_at = [k \in Chats |-> 0]
    /\ now = 1
    /\ req = [w \in Workers |-> NoReq]
    /\ reactions = {}
    /\ reacted = NoReq
    /\ last_read = [u \in Users |-> [k \in Chats |-> 0]]
    /\ walk = NoWalk
    /\ stats = <<>>
    /\ MemberInit

\* One viewer reads and lists; the other members only write messages.
Viewer == 1

UnreadNext ==
    \/ \E truth \in IsNotTruth : ListChat(Viewer, truth)
    \/ \E k \in Chats, i \in 1..MaxMsgs : SetLastMessageRead(Viewer, k, i)

UnreadSpec == UnreadInit /\ [][UnreadNext]_vars

\* C17: the chat list reports for every listed chat unread_count = the number
\* of the chat's messages created after the viewer's last-read message (all of
\* the chat's messages when none is marked read) and has_reply = whether one
\* of those messages is a reply.
C17_UnreadStats ==
    [][LET Unread(chat_id) ==
               {i \in DOMAIN messages :
                   /\ messages[i].chat_id = chat_id
                   /\ \/ last_read[Viewer][chat_id] = 0
                      \/ messages[i].created_at >
                            messages[last_read[Viewer][chat_id]].created_at}
       IN  \A truth \in IsNotTruth :
              ListChat(Viewer, truth) =>
                  /\ stats'.error = "none"
                  /\ \A k \in Chats :
                        /\ stats'.items[k].unread_count = Cardinality(Unread(k))
                        /\ stats'.items[k].has_reply =
                              (\E i \in Unread(k) : messages[i].is_reply)]_vars

\* ---------------------------------------------- chat/service.py: reactions
\* A row of table `message_reaction`.
Reaction(emoji, account_id, message_id) ==
    [emoji |-> emoji, account_id |-> account_id, message_id |-> message_id]

\* The reactions of one message.
reactions_of(rs, message_id) == {r \in rs : r.message_id = message_id}

\* ChatService.create_delete_reaction by a member of the message's chat: the
\* tables the call may leave.  The existing reaction is looked up by emoji and
\* account only, and first() takes any matching row; an insert that breaks
\* uix_account_message (one reaction per account and message) fails at commit.
create_delete_reaction(rs, ms, account_id, message_id, emoji) ==
    IF message_id \notin DOMAIN ms
    THEN {rs}
    ELSE LET found == {r \in rs : r.emoji = emoji /\ r.account_id = account_id}
         IN  IF found # {}
             THEN {rs \ {r} : r \in found}
             ELSE IF \E r \in rs : r.account_id = account_id /\ r.message_id = message_id
                  THEN {rs}
                  ELSE {rs \cup {Reaction(emoji, account_id, message_id)}}

\* One reaction call (POST reaction / chat.message.reaction event).
React(account_id, message_id, emoji) ==
    /\ reactions' \in create_delete_reaction(reactions, messages, account_id,
                                            message_id, emoji)
    /\ reacted' = [op |-> "react", account_id |-> account_id,
                   message_id |-> message_id, emoji |-> emoji,
                   before |-> reactions]
    /\ UNCHANGED <<active_connections, transport, accepting, bcastVars,
                   subscribed, last, gwVars, messages, last_message_at, now,
                   req, last_read, walk, stats, memberVars, feedVars, annotVars>>

\* Two messages of one chat to react to.
ReactionInit ==
    /\ GatewayInit
    /\ messages = <<Row(<<"chat", 1>>, 1, 1, FALSE, "original", FALSE),
                    Row(<<"chat", 1>>, 2, 2, FALSE, "original", FALSE)>>
    /\ last_message_at = [k \in Chats |-> 0]
    /\ now = 1
    /\ req = [w \in Workers |-> NoReq]
    /\ reactions = {}
    /\ reacted = NoReq
    /\ last_read = [u \in Users |-> [k \in Chats |-> 0]]
    /\ walk = NoWalk
    /\ stats = <<>>
    /\ MemberInit

ReactionNext ==
    \E a \in Users, m \in 1..MaxMsgs, e \in Emojis : React(a, m, e)

ReactionSpec == ReactionInit /\ [][ReactionNext]_vars

\* C18: a reaction call for (emoji, account, message) made when the message
\* carries no such reaction adds exactly that reaction to the message, and a
\* call that directly follows a call with the same (emoji, account, message)
\* leaves the message's reactions as they were before the first of the two.
C18_ReactionToggle ==
    [][\A a \in Users, m \in DOMAIN messages, e \in Emojis :
          React(a, m, e) =>
              /\ Reaction(e, a, m) \notin reactions =>
                    reactions_of(reactions', m) =
                        reactions_of(reactions, m) \cup {Reaction(e, a, m)}
              /\ (/\ reacted # NoReq
                  /\ reacted.account_id = a
                  /\ reacted.message_id = m
                  /\ reacted.emoji = e) =>
                    reactions_of(reactions', m) = reactions_of(reacted.before, m)]_vars

\* -------------------------- chat/service.py: create / update / delete message
\* Each request runs in a database session of its own (READ COMMITTED): what
\* it flushed is seen by the others at its commit, and the UPDATE a commit
\* sends writes the attributes the request changed, nothing else.
dbOther == <<reactions, reacted, last_read, walk, stats, memberVars, feedVars, annotVars>>

\* create_message up to `await session.flush()`: the membership check passed,
\* Message(...) took created_at from the clock, the INSERT is sent.
CreateBegin(w, account_id, chat_id) ==
    /\ req[w] = NoReq
    /\ Len(messages) + Cardinality({x \in Workers : req[x].op = "create"}) < MaxCreates
    /\ req' = [req EXCEPT ![w] = [op |-> "create", pc |-> "flushed",
                                  chat_id |-> chat_id, account_id |-> account_id,
                                  created_at |-> now, read |-> 0]]
    /\ UNCHANGED <<active_connections, transport, accepting, bcastVars,
                   subscribed, last, gwVars, messages, last_message_at, now,
                   dbOther>>

\* `await session.refresh(chat)`: the committed last_message_at is read.
CreateRefresh(w) ==
    /\ req[w].op = "create" /\ req[w].pc = "flushed"
    /\ req' = [req EXCEPT ![w].pc = "refreshed",
                          ![w].read = last_message_at[req[w].chat_id]]
    /\ UNCHANGED <<active_connections, transport, accepting, bcastVars,
                   subscribed, last, gwVars, messages, last_message_at, now,
                   dbOther>>

\* The comparison with the value read, then `await session.commit()`.
CreateCommit(w) ==
    /\ req[w].op = "create" /\ req[w].pc = "refreshed"
    /\ messages' = Append(messages, Row(req[w].chat_id, req[w].account_id,
                                        req[w].created_at, FALSE, "original", FALSE))
    /\ last_message_at' =
          IF req[w].created_at > req[w].read
          THEN [last_message_at EXCEPT ![req[w].chat_id] = req[w].created_at]
          ELSE last_message_at
    /\ req' = [req EXCEPT ![w] = NoReq]
    /\ UNCHANGED <<active_connections, transport, accepting, bcastVars,
                   subscribed, last, gwVars, now, dbOther>>

\* What the select of update_message / delete_message leads to: no row with
\* this id and this sender -> 404, a deleted one -> 403, else go on.
select_own(ms, account_id, message_id) ==
    IF message_id \notin DOMAIN ms \/ ms[message_id].sender_id # account_id
    THEN "404"
    ELSE IF ms[message_id].is_deleted THEN "403" ELSE "selected"

\* update_message / delete_message up to the commit: the select and the checks.
ModifySelect(w, op, account_id, message_id) ==
    /\ req[w] = NoReq
    /\ LET found == select_own(messages, account_id, message_id)
       IN  req' = [req EXCEPT ![w] =
                      IF found = "selected"
                      THEN [op |-> op, pc |-> found, account_id |-> account_id,
                            message_id |-> message_id]
                      ELSE [op |-> op, pc |-> found]]
    /\ UNCHANGED <<active_connections, transport, accepting, bcastVars,
                   subscribed, last, gwVars, messages, last_message_at, now,
                   dbOther>>

\* The HTTPException reaches the client; nothing was written.
ModifyRaises(w) ==
    /\ req[w].op \in {"update", "delete"} /\ req[w].pc \in {"404", "403"}
    /\ req' = [req EXCEPT ![w] = NoReq]
    /\ UNCHANGED <<active_connections, transport, accepting, bcastVars,
                   subscribed, last, gwVars, messages, last_message_at, now,
                   dbOther>>

\* update_message: sqlmodel_update(content), is_edited = True, commit.
UpdateCommit(w) ==
    /\ req[w].op = "update" /\ req[w].pc = "selected"
    /\ messages' = [messages EXCEPT ![req[w].message_id].content = "edited",
                                    ![req[w].message_id].is_edited = TRUE]
    /\ req' = [req EXCEPT ![w] = NoReq]
    /\ UNCHANGED <<active_connections, transport, accepting, bcastVars,
                   subscribed, last, gwVars, last_message_at, now, dbOther>>

\* delete_message: is_deleted = True, commit.
DeleteCommit(w) ==
    /\ req[w].op = "delete" /\ req[w].pc = "selected"
    /\ messages' = [messages EXCEPT ![req[w].message_id].is_deleted = TRUE]
    /\ req' = [req EXCEPT ![w] = NoReq]
    /\ UNCHANGED <<active_connections, transport, accepting, bcastVars,
                   subscribed, last, gwVars, last_message_at, now, dbOther>>

\* Time passes.
Tick ==
    /\ now < MaxTime
    /\ now' = now + 1
    /\ UNCHANGED <<active_connections, transport, accepting, bcastVars,
                   subscribed, last, gwVars, messages, last_message_at, req,
                   dbOther>>

MessageNext ==
    \/ \E w \in Workers, u \in Users, k \in Chats : CreateBegin(w, u, k)
    \/ \E w \in Workers : CreateRefresh(w)
    \/ \E w \in Workers : CreateCommit(w)
    \/ \E w \in Workers, op \in {"update", "delete"}, u \in Users,
          m \in 1..MaxMsgs : ModifySelect(w, op, u, m)
    \/ \E w \in Workers : ModifyRaises(w)
    \/ \E w \in Workers : UpdateCommit(w)
    \/ \E w \in Workers : DeleteCommit(w)
    \/ Tick

MessageSpec == Init /\ [][MessageNext]_vars

\* C19: chat.last_message_at never decreases, whatever the interleaving of
\* create, update and delete requests, and the commit of an update or a
\* delete leaves it as it was.
C19_LastMessageAtMonotone ==
    [][/\ \A k \in Chats : last_message_at'[k] >= last_message_at[k]
       /\ \A w \in Workers :
             (UpdateCommit(w) \/ DeleteCommit(w)) =>
                 last_message_at' = last_message_at]_vars

\* C20: a message changes only by an update or delete of its sender made
\* while it is not deleted; a request by someone else or on a deleted message
\* fails and writes nothing; and a deleted message never changes again
\* (is_deleted stays true, content stays as stored).
C20_SoftDeleteTerminal ==
    [][/\ \A m \in DOMAIN messages :
             /\ messages[m].is_deleted => messages'[m] = messages[m]
             /\ messages'[m] # messages[m] =>
                   \E w \in Workers :
                       /\ req[w].op \in {"update", "delete"}
                       /\ req[w].pc = "selected"
                       /\ req[w].message_id = m
                       /\ req[w].account_id = messages[m].sender_id
             /\ messages[m].is_deleted => messages'[m].is_deleted
       /\ \A w \in Workers, op \in {"update", "delete"}, u \in Users,
             m \in 1..MaxMsgs :
             (/\ ModifySelect(w, op, u, m)
              /\ \/ m \notin DOMAIN messages
                 \/ messages[m].sender_id # u
                 \/ messages[m].is_deleted) =>
                 /\ req'[w].pc \in {"404", "403"}
                 /\ messages' = messages
       /\ \A w \in Workers : ModifyRaises(w) => messages' = messages]_vars

\* ------------------------------------------- chat/service.py: chat members
\* select(ChatMember).where(account_id == ..., chat_id == ...)
member_rows(ms, account_id, chat_id) ==
    {m \in ms : m.account_id = account_id /\ m.chat_id = chat_id}

\* .first() of a query that matched rows (uix_account_chat: at most one).
first(rows) == CHOOSE m \in rows : TRUE

\* get_chat_or_raise: the chat joined with the account's membership row.
is_member(ms, account_id, chat_id) == member_rows(ms, account_id, chat_id) # {}

\* The permission test of update_chat, make_admin and remove_admin: it
\* compares the member's *status* with MemberRole.ADMIN.
denied_by_status(m) == m.status # "admin" /\ ~m.is_creator

\* The permission test of remove_member: it compares the member's role.
denied_by_role(m) == m.role # "admin" /\ ~m.is_creator

\* ChatService.update_chat: "403" for a non-member and when the permission
\* test fails, else the chat is rewritten.
update_chat(ms, account_id, chat_id) ==
    IF ~is_member(ms, account_id, chat_id) THEN "403"
    ELSE IF denied_by_status(first(member_rows(ms, account_id, chat_id))) THEN "403"
    ELSE "ok"

\* What the room handler publishes for a chat.update frame: the event to the
\* room and to the sender's personal-sync channel when update_chat returned,
\* nothing when it raised.
chat_update_publishes(outcome, chat_id, account_id) ==
    IF outcome = "ok" THEN <<chat_id, chat_history_ws_channel(account_id)>> ELSE <<>>

\* A chat.update frame of account_id on its room connection to chat_id.
UpdateChat(account_id, chat_id) ==
    LET outcome == update_chat(members, account_id, chat_id)
    IN  /\ chat_name' = IF outcome = "ok"
                        THEN [chat_name EXCEPT ![chat_id] = "edited"]
                        ELSE chat_name
        /\ resp' = [op |-> "chat.update", account_id |-> account_id,
                    chat_id |-> chat_id, outcome |-> outcome,
                    published |-> chat_update_publishes(outcome, chat_id, account_id)]
        /\ UNCHANGED <<active_connections, transport, accepting, bcastVars,
                       subscribed, last, gwVars, messages, last_message_at, now,
                       req, reactions, reacted, last_read, walk, stats, feedVars, annotVars,
                       members, current_uses, admitted>>

\* ChatService.make_admin / remove_admin: outcome and the role written.
set_role(ms, account_id, chat_id, member_id) ==
    IF ~is_member(ms, account_id, chat_id) THEN "403"
    ELSE IF denied_by_status(first(member_rows(ms, account_id, chat_id))) THEN "403"
    ELSE IF ~is_member(ms, member_id, chat_id) THEN "404"
    ELSE "ok"

\* make_admin (role = "admin") or remove_admin (role = "member").
SetRole(account_id, chat_id, member_id, role) ==
    LET outcome == set_role(members, account_id, chat_id, member_id)
        old == first(member_rows(members, member_id, chat_id))
    IN  /\ members' = IF outcome = "ok"
                      THEN (members \ {old}) \cup {[old EXCEPT !.role = role]}
                      ELSE members
        /\ resp' = [op |-> "set_role", account_id |-> account_id,
                    chat_id |-> chat_id, outcome |-> outcome, published |-> <<>>]
        /\ UNCHANGED <<active_connections, transport, accepting, bcastVars,
                       subscribed, last, gwVars, messages, last_message_at, now,
                       req, reactions, reacted, last_read, walk, stats, feedVars, annotVars,
                       chat_name, current_uses, admitted>>

\* ChatService.remove_member: outcome.
remove_member(ms, account_id, chat_id, member_id) ==
    IF ~is_member(ms, member_id, chat_id) THEN "404"
    ELSE IF ~is_member(ms, account_id, chat_id) THEN "403"
    ELSE IF denied_by_role(first(member_rows(ms, account_id, chat_id))) THEN "403"
    ELSE "ok"

\* remove_member deletes the membership row; it touches nothing else.
RemoveMember(account_id, chat_id, member_id) ==
    LET outcome == remove_member(members, account_id, chat_id, member_id)
    IN  /\ members' = IF outcome = "ok"
                      THEN members \ member_rows(members, member_id, chat_id)
                      ELSE members
        /\ resp' = [op |-> "remove_member", account_id |-> account_id,
                    chat_id |-> chat_id, outcome |-> outcome, published |-> <<>>]
        /\ UNCHANGED <<active_connections, transport, accepting, bcastVars,
                       subscribed, last, gwVars, messages, last_message_at, now,
                       req, reactions, reacted, last_read, walk, stats, feedVars, annotVars,
                       chat_name, current_uses, admitted>>

MemberNext ==
    \/ \E u \in Users, k \in Chats : UpdateChat(u, k)
    \/ \E u, t \in Users, k \in Chats, r \in {"admin", "member"} : SetRole(u, k, t, r)
    \/ \E u, t \in Users, k \in Chats : RemoveMember(u, k, t)

MemberSpec == Init /\ [][MemberNext]_vars

\* C21: a chat.update by a member who has the admin role or created the chat
\* succeeds and rewrites the chat; a chat.update by any other member is
\* rejected as permission denied, leaves the chat as it was and publishes
\* nothing.
C21_UpdateChatPermission ==
    [][\A u \in Users, k \in Chats :
          (UpdateChat(u, k) /\ is_member(members, u, k)) =>
              LET m == first(member_rows(members, u, k))
              IN  IF m.role = "admin" \/ m.is_creator
                  THEN /\ resp'.outcome = "ok"
                       /\ chat_name'[k] = "edited"
                  ELSE /\ resp'.outcome = "403"
                       /\ chat_name' = chat_name
                       /\ resp'.published = <<>>]_vars

\* ------------------------- chat/ws_router.py: connect_to_chat, step by step
\* What the room handler leaves alone.
feedOther == <<accepting, bcastVars, last, hist_conns, todo, cleanups, results,
               pubq, listener, inbox, disc_seen, req, reactions, reacted,
               last_read, walk, stats, memberVars, annotVars>>

\* accept, get_initial_data, send chat.initial: the newest page is read and
\* sent; the socket is not subscribed yet.
RoomLoad(c, u, chat_id) ==
    /\ pc[c] = "idle" /\ transport[c] = "open"
    /\ is_member(members, u, chat_id)
    /\ \E r \in list_messages(messages, chat_id, 0, "none", PageLimit) :
          /\ r.error = "none"
          /\ initial' = [initial EXCEPT ![c] =
                            [op |-> "chat.initial", items |-> r.items,
                             has_next |-> r.has_next, upto |-> Len(messages)]]
    /\ kind' = [kind EXCEPT ![c] = "room"]
    /\ user' = [user EXCEPT ![c] = u]
    /\ bound' = [bound EXCEPT ![c] = chat_id]
    /\ pc' = [pc EXCEPT ![c] = "loaded"]
    /\ UNCHANGED <<active_connections, transport, close_code, subscribed,
                   messages, last_message_at, now, pushed, announced, feedOther>>

\* get_initial_data raises (the caller is no member, or list_messages fails):
\* the WebSocketException ends the handler before anything was sent.
RoomLoadRaises(c, u, chat_id) ==
    /\ pc[c] = "idle" /\ transport[c] = "open"
    /\ \/ ~is_member(members, u, chat_id)
       \/ \E r \in list_messages(messages, chat_id, 0, "none", PageLimit) :
             r.error # "none"
    /\ kind' = [kind EXCEPT ![c] = "room"]
    /\ pc' = [pc EXCEPT ![c] = "aborted"]
    /\ transport' = close(transport, c)
    /\ UNCHANGED <<active_connections, close_code, subscribed, user, bound,
                   messages, last_message_at, now, feedVars, feedOther>>

\* A client opens the room endpoint.
RoomOpen(c, u, chat_id) == RoomLoad(c, u, chat_id) \/ RoomLoadRaises(c, u, chat_id)

\* subscribe_local(chat_id), subscribe_local(sync_key): the loop starts.
RoomSubscribe(c) ==
    /\ kind[c] = "room" /\ pc[c] = "loaded"
    /\ active_connections' =
          subscribe_local(subscribe_local(active_connections, bound[c], c).ac,
                          chat_history_ws_channel(user[c]), c).ac
    /\ subscribed' = subscribed \cup {<<bound[c], c>>,
                                      <<chat_history_ws_channel(user[c]), c>>}
    /\ pc' = [pc EXCEPT ![c] = "recv"]
    /\ UNCHANGED <<transport, close_code, kind, user, bound, messages,
                   last_message_at, now, feedVars, feedOther>>

\* A message event published on a channel.
Announced(key, event, message_id) ==
    [key |-> key, event |-> event, message_id |-> message_id]

\* chat.message.create with data.chat_id = chat_id: create_message checks the
\* sender's membership of data.chat_id and stores the message there; the
\* handler publishes the event on the channel of the room it serves, to the
\* sockets registered there now.
RoomMessageCreate(c, chat_id) ==
    /\ kind[c] = "room" /\ pc[c] = "recv" /\ transport[c] = "open"
    /\ is_member(members, user[c], chat_id)
    /\ Len(messages) < MaxMsgs
    /\ LET id == Len(messages) + 1
       IN  /\ messages' = Append(messages, Row(chat_id, user[c], now, FALSE,
                                                "original", FALSE))
           /\ announced' = announced \cup
                              {Announced(bound[c], "chat.message.create", id)}
           /\ pushed' = [x \in Sockets |->
                            IF x \in snapshot(active_connections, bound[c])
                            THEN pushed[x] \cup {id} ELSE pushed[x]]
    /\ last_message_at' = IF now > last_message_at[chat_id]
                          THEN [last_message_at EXCEPT ![chat_id] = now]
                          ELSE last_message_at
    /\ UNCHANGED <<active_connections, transport, close_code, subscribed, kind,
                   pc, user, bound, now, initial, feedOther>>

\* chat.message.update / chat.message.delete for message_id: the service
\* selects by id and sender; the handler publishes on the room it serves.
RoomMessageModify(c, op, message_id) ==
    /\ kind[c] = "room" /\ pc[c] = "recv" /\ transport[c] = "open"
    /\ select_own(messages, user[c], message_id) = "selected"
    /\ messages' = IF op = "update"
                   THEN [messages EXCEPT ![message_id].content = "edited",
                                         ![message_id].is_edited = TRUE]
                   ELSE [messages EXCEPT ![message_id].is_deleted = TRUE]
    /\ announced' = announced \cup
                       {Announced(bound[c],
                                  IF op = "update" THEN "chat.message.update"
                                  ELSE "chat.message.delete",
                                  message_id)}
    /\ UNCHANGED <<active_connections, transport, close_code, subscribed, kind,
                   pc, user, bound, last_message_at, now, initial, pushed,
                   feedOther>>

\* One message in chat 1, none in chat 2.
FeedInit ==
    /\ GatewayInit
    /\ messages = <<Row(<<"chat", 1>>, 1, 1, FALSE, "original", FALSE)>>
    /\ last_message_at = [k \in Chats |-> IF k = <<"chat", 1>> THEN 1 ELSE 0]
    /\ now = 1
    /\ req = [w \in Workers |-> NoReq]
    /\ reactions = {}
    /\ reacted = NoReq
    /\ last_read = [u \in Users |-> [k \in Chats |-> 0]]
    /\ walk = NoWalk
    /\ stats = <<>>
    /\ MemberInit

FeedNext ==
    \/ \E c \in Sockets, u \in Users, k \in Chats : RoomLoad(c, u, k)
    \/ \E c \in Sockets, u \in Users, k \in Chats : RoomLoadRaises(c, u, k)
    \/ \E c \in Sockets : RoomSubscribe(c)
    \/ \E c \in Sockets, k \in Chats : RoomMessageCreate(c, k)
    \/ \E c \in Sockets, op \in {"update", "delete"}, m \in 1..MaxMsgs :
          RoomMessageModify(c, op, m)
    \/ \E c \in Sockets : RoomError(c)

FeedSpec == FeedInit /\ [][FeedNext]_vars

\* C22: a room connection whose subscription is complete has been pushed
\* every message of its chat that was created after its initial page was read
\* and announced on the room's channel.
C22_NoMissedMessage ==
    \A c \in Sockets :
        (kind[c] = "room" /\ pc[c] = "recv") =>
            \A i \in DOMAIN messages :
                (/\ i > initial[c].upto
                 /\ messages[i].chat_id = bound[c]
                 /\ Announced(bound[c], "chat.message.create", i) \in announced)
                    => i \in pushed[c]

\* C24: every chat.message.create / update / delete event published on the
\* channel of a room carries a message that belongs to that room's chat.
C24_EventsBelongToRoom ==
    \A a \in announced :
        a.key \in Chats => messages[a.message_id].chat_id = a.key

\* C26: when a member opens the room endpoint of a chat without non-deleted
\* messages, chat.initial carries an empty page with has_next = false and the
\* connection goes on to subscribe.
C26_EmptyChatOpens ==
    [][\A c \in Sockets, u \in Users, k \in Chats :
          (/\ RoomOpen(c, u, k)
           /\ is_member(members, u, k)
           /\ listable(messages, k) = {}) =>
              /\ pc'[c] = "loaded"
              /\ initial'[c].op = "chat.initial"
              /\ initial'[c].items = <<>>
              /\ ~initial'[c].has_next]_vars


\* ------------------------------------------- membership of the registered
\* The room endpoint, the history endpoint and remove_member side by side.
RosterNext ==
    \/ \E c \in Sockets, u \in Users, k \in Chats : RoomLoad(c, u, k)
    \/ \E c \in Sockets, u \in Users, k \in Chats : RoomLoadRaises(c, u, k)
    \/ \E c \in Sockets : RoomSubscribe(c)
    \/ \E c \in Sockets : RoomError(c)
    \/ \E c \in Sockets, u \in Users : HistoryHydrate(c, u)
    \/ \E c \in Sockets, k \in Chats : HistorySubscribe(c, k)
    \/ \E c \in Sockets, k \in Chats \cup SyncKeys : HistoryUnsubscribe(c, k)
    \/ \E u, t \in Users, k \in Chats : RemoveMember(u, k, t)

RosterSpec == FeedInit /\ [][RosterNext]_vars

\* C23: every socket registered under the channel of a chat room belongs to a
\* user who is a member of that chat, whichever endpoint registered it and
\* whatever happened to the membership since.
C23_RegisteredAreMembers ==
    \A k \in Chats : \A c \in Registered(k) : is_member(members, user[c], k)


\* C25: a room frame whose event is missing or names no branch of the
\* dispatch starts no publish: no fan-out begins and none is queued, on the
\* room channel or on the personal-sync channel.
C25_UnknownEventSilent ==
    [][\A c \in Sockets :
          (RoomEvent(c, "other") \/ RoomFrame(c, "noevent")) =>
              /\ UNCHANGED bcastVars
              /\ pubq'[c] = <<>>
              /\ pc'[c] = "recv"]_vars


\* ================================================ chat/service.py: invites
\* One invite, of chat InviteChat, with max_uses = MaxUses; its current_uses
\* column is the variable current_uses.
MaxUses == 1

InviteChat == <<"chat", 1>>

inviteOther == <<active_connections, transport, accepting, bcastVars,
                 subscribed, last, gwVars, messages, last_message_at, now,
                 reactions, reacted, last_read, walk, stats, feedVars, annotVars, chat_name>>

\* accept_invite, up to the usage check: the invite row is loaded into the
\* session and `current_uses >= max_uses` is tested on the loaded value.
AcceptBegin(w, account_id) ==
    /\ req[w] = NoReq
    /\ IF current_uses >= MaxUses
       THEN /\ resp' = [op |-> "accept_invite", account_id |-> account_id,
                        outcome |-> "400"]
            /\ UNCHANGED req
       ELSE /\ req' = [req EXCEPT ![w] = [op |-> "accept", pc |-> "checked",
                                           account_id |-> account_id,
                                           seen |-> current_uses]]
            /\ UNCHANGED resp
    /\ UNCHANGED <<members, current_uses, admitted, inviteOther>>

\* The select for an existing membership: "Already a member" ends the request.
AcceptExisting(w) ==
    /\ req[w].op = "accept" /\ req[w].pc = "checked"
    /\ IF is_member(members, req[w].account_id, InviteChat)
       THEN /\ resp' = [op |-> "accept_invite", account_id |-> req[w].account_id,
                        outcome |-> "400"]
            /\ req' = [req EXCEPT ![w] = NoReq]
       ELSE /\ req' = [req EXCEPT ![w].pc = "adding"]
            /\ UNCHANGED resp
    /\ UNCHANGED <<members, current_uses, admitted, inviteOther>>

\* session.add(new_member); invite.current_uses += 1; commit.  The increment
\* is computed from the loaded value and written as that number; the insert
\* fails on uix_account_chat when the account has joined meanwhile.
AcceptCommit(w) ==
    /\ req[w].op = "accept" /\ req[w].pc = "adding"
    /\ IF is_member(members, req[w].account_id, InviteChat)
       THEN /\ resp' = [op |-> "accept_invite", account_id |-> req[w].account_id,
                        outcome |-> "IntegrityError"]
            /\ UNCHANGED <<members, current_uses, admitted>>
       ELSE /\ members' = members \cup
                            {Member(req[w].account_id, InviteChat, "member", FALSE)}
            /\ current_uses' = req[w].seen + 1
            /\ admitted' = admitted \cup {req[w].account_id}
            /\ resp' = [op |-> "accept_invite", account_id |-> req[w].account_id,
                        outcome |-> "ok"]
    /\ req' = [req EXCEPT ![w] = NoReq]
    /\ UNCHANGED inviteOther

\* Invite acceptances by concurrent requests, and removals of members.
InviteNext ==
    \/ \E w \in Workers, u \in Users : AcceptBegin(w, u)
    \/ \E w \in Workers : AcceptExisting(w)
    \/ \E w \in Workers : AcceptCommit(w)
    \/ \E u, t \in Users : RemoveMember(u, InviteChat, t)

InviteSpec == Init /\ [][InviteNext]_vars

\* C27: the invite's current_uses never exceeds its max_uses, and no more
\* than max_uses accounts were admitted through it, whatever the
\* interleaving of the accept_invite calls.
C27_InviteLimit ==
    /\ current_uses <= MaxUses
    /\ Cardinality(admitted) <= MaxUses


\* C28: a reaction call by account a on message m leaves every reaction other
\* than a's reaction on m as it was: a's reactions on other messages and the
\* reactions of the other accounts are the same before and after.
C28_ReactionFrame ==
    [][\A a \in Users, m \in DOMAIN messages, e \in Emojis :
          React(a, m, e) =>
              {r \in reactions' : r.account_id # a \/ r.message_id # m} =
                  {r \in reactions : r.account_id # a \/ r.message_id # m}]_vars


\* ============================================ student/ws_router.py: fan-out
\* Annotation events handed to the broker per document, at most.
MaxEvents == 2

\* The database, which the annotation fan-out leaves alone.
annotOther == <<messages, last_message_at, now, req, reactions, reacted,
                last_read, walk, stats, memberVars, feedVars>>

\* annotation.create / .update / .delete handled: redis.publish hands the
\* payload to the broker once, and the broker hands it to every pubsub
\* subscribed to the document's channel, one per connection.
AnnotPublish(c) ==
    /\ kind[c] = "annot" /\ pc[c] = "recv" /\ transport[c] = "open"
    /\ published[bound[c]] < MaxEvents
    /\ \A s \in listeners(bound[c]) : inbox[s] < MaxInbox
    /\ inbox' = [s \in Sockets |->
                    IF s \in listeners(bound[c]) THEN inbox[s] + 1 ELSE inbox[s]]
    /\ published' = [published EXCEPT ![bound[c]] = @ + 1]
    /\ UNCHANGED <<active_connections, transport, accepting, bcastVars,
                   subscribed, last, kind, close_code, pc, user, bound,
                   hist_conns, todo, cleanups, results, pubq, listener,
                   disc_seen, annotOther, delivered>>

\* One iteration of broadcast_local run by the redis_listener of connection
\* p: send_json(payload) to ws returns, or raises and ws is disconnected.
AnnotSend(p, ws) ==
    /\ p \in Sockets /\ listener[p] = "running"
    /\ bpc[p] = "sending"
    /\ ws \in targets(p)
    /\ IF send_json_ok(ws)
       THEN /\ UNCHANGED <<active_connections, subscribed>>
            /\ after_send(p, ws, TRUE, "none")
            /\ delivered' = [delivered EXCEPT ![ws] = @ + 1]
       ELSE LET r == disconnect(active_connections, bkey[p], ws)
            IN  /\ active_connections' = r.ac
                /\ subscribed' = subscribed \ {<<bkey[p], ws>>}
                /\ after_send(p, ws, FALSE, r.exc)
                /\ UNCHANGED delivered
    /\ UNCHANGED <<transport, accepting, last, gwVars, annotOther, published>>

\* The annotation endpoint with the deliveries counted.
AnnotFanNext ==
    \/ \E s \in Sockets : TransportDrop(s)
    \/ \E c \in Sockets, u \in Users, d \in DocIds : AnnotConnect(c, u, d)
    \/ \E c \in Sockets : AnnotAccepted(c)
    \/ \E c \in Sockets : AnnotAcceptRaises(c)
    \/ \E c \in Sockets : AnnotPublish(c)
    \/ \E c \in Sockets : AnnotListen(c)
    \/ \E p \in Sockets, s \in Sockets : AnnotSend(p, s)
    \/ \E c \in Sockets : AnnotDisconnect(c)

AnnotFanSpec == Init /\ [][AnnotFanNext]_vars

\* C29: a client of the annotation endpoint is sent each event published for
\* its document once: it has never been sent more payloads than events were
\* published for the document.
C29_DeliveredOnce ==
    \A s \in Sockets :
        kind[s] = "annot" => delivered[s] <= published[bound[s]]


\* ---- chat/ws_router.py: chat.unsubscribe on the history endpoint
\* `conns[data]` is evaluated before anything else: for a key the handler
\* does not track it raises KeyError, which `except Exception` takes.
HistoryUnsubscribeFrame(c, data) ==
    IF data \in hist_conns[c] THEN HistoryUnsubscribe(c, data) ELSE HistoryError(c)

\* C30: a chat.unsubscribe for a room the history connection is not
\* subscribed to changes nothing: the connection stays open in its loop and
\* all its subscriptions stay registered.
C30_UnsubscribeUnknownNoop ==
    [][\A c \in Sockets, k \in Chats :
          (HistoryUnsubscribeFrame(c, k) /\ k \notin hist_conns[c]) =>
              /\ pc'[c] = "recv"
              /\ transport'[c] = "open"
              /\ RegisteredKeys(c)' = RegisteredKeys(c)]_vars

====
